---- MODULE Spec2Model ----
(***************************************************************************)
(* The WAV structural inspector of sonu-copilot                            *)
(* (src/components/AudioFileCheck.py) and its batch runner                 *)
(* (AudioFileCheckThread in src/components/Threads.py).                    *)
(*                                                                         *)
(* A file is the sequence of its bytes (integers 0..255); a path is the    *)
(* sequence of its character codes.  Every check is an operator that       *)
(* computes, from a path and the file found there, the outcome of the      *)
(* Python function (a verdict "True"/"False" or the name of the exception  *)
(* raised) and the list of file-system accesses made on the way.           *)
(***************************************************************************)
EXTENDS Integers, Sequences, FiniteSets, TLC

VARIABLES
  path,      \* file_path handed to a single check
  content,   \* the file found at path: [exists, bytes]
  op,        \* the check that has run ("none" before the call)
  args,      \* the keyword arguments of that call
  out,       \* its outcome: [res, io]
  files,     \* AudioFileCheckThread.files
  checks_arg,\* the checks argument the thread was constructed with
  checks,    \* AudioFileCheckThread.checks
  issues,    \* AudioFileCheckThread.issues
  bpc,       \* position of AudioFileCheckThread.run: "new", "loop", "done"
             \* ("none" when there is no thread)
  idx,       \* number of entries of files the loop of run has taken
  progress,  \* the local counter progress of run
  emitted,   \* signals emitted so far, in order
  calls,     \* checks invoked by run so far, in order: <<position in
             \* files, check, outcome>>
  dec,       \* one sample and what the two decodings make of it
  procs,     \* check invocations under way, each with its own locals
  win,       \* the main window: its view, its flags and its worker thread
  fc         \* FileCheckThread: schema, the parts of a file name, issues

vars == <<path, content, op, args, out, files, checks_arg, checks, issues,
          bpc, idx, progress, emitted, calls, dec, procs, win, fc>>

----------------------------------------------------------------------------
(* Bytes, slices and integer decoding                                      *)

Min(a, b) == IF a < b THEN a ELSE b
Max(a, b) == IF a > b THEN a ELSE b

\* Python's s[a:b] for 0 <= a <= b (0-based, clipped to the length of s).
Slice(s, a, b) == SubSeq(s, a + 1, Min(b, Len(s)))

\* f.read(n) with the cursor at pos: the bytes left, at most n of them.
FileRead(bytes, pos, n) == Slice(bytes, pos, pos + n)

\* A mutated decoding: most significant byte first.
RECURSIVE FromBytesBig(_)
FromBytesBig(bs) ==
  IF bs = <<>> THEN 0
  ELSE bs[Len(bs)] + 256 * FromBytesBig(SubSeq(bs, 1, Len(bs) - 1))

\* int.from_bytes(bs, byteorder="little", signed=False)
RECURSIVE FromBytesLittle(_)
FromBytesLittle(bs) ==
  IF bs = <<>> THEN 0
  ELSE bs[1] + 256 * FromBytesLittle(Tail(bs))

\* The four-character codes the code compares with.
TagRIFF == <<82, 73, 70, 70>>
TagWAVE == <<87, 65, 86, 69>>
TagSmpl == <<115, 109, 112, 108>>
TagFmt  == <<102, 109, 116, 32>>
TagData == <<100, 97, 116, 97>>

----------------------------------------------------------------------------
(* Paths: Path(p).suffix, str.lower()                                      *)

\* A mutated lower() that leaves every character as it is.
LowerCharKeep(c) == c

\* str.lower() on one character code (ASCII).
LowerChar(c) == IF c >= 65 /\ c <= 90 THEN c + 32 ELSE c
Lower(s) == [i \in 1..Len(s) |-> LowerChar(s[i])]

\* Index of the last occurrence of character c in s, 0 when there is none
\* (str.rfind, 1-based).
LastIndex(s, c) ==
  LET hits == {i \in 1..Len(s) : s[i] = c}
  IN IF hits = {} THEN 0 ELSE CHOOSE i \in hits : \A j \in hits : j <= i

\* PurePath.name: the final component (what follows the last '/', code 47).
PathName(p) == SubSeq(p, LastIndex(p, 47) + 1, Len(p))

\* PurePath.suffix: from the last dot (code 46) of the name, when it is neither
\* the first nor the last character of the name.
PathSuffix(p) ==
  LET name == PathName(p)
      i    == LastIndex(name, 46)
  IN IF 1 < i /\ i < Len(name) THEN SubSeq(name, i, Len(name)) ELSE <<>>

DotWav == <<46, 119, 97, 118>>

\* A mutated gate that compares the suffix as written.
HasWavSuffixCaseSensitive(p) == PathSuffix(p) = DotWav

\* path.suffix.lower() != ".wav" is the gate of every check.
HasWavSuffix(p) == Lower(PathSuffix(p)) = DotWav

----------------------------------------------------------------------------
(* Outcomes                                                                *)

Returned(v, io)  == [res |-> IF v THEN "True" ELSE "False", io |-> io]
Raised(exc, io)  == [res |-> exc, io |-> io]
IsVerdict(r)     == r \in {"True", "False"}

NoFile == [exists |-> FALSE, bytes |-> <<>>]
AFile(bytes) == [exists |-> TRUE, bytes |-> bytes]

----------------------------------------------------------------------------
(* wav_riff_size_matches_file                                              *)

\* A mutated comparison that takes the size field for the whole file size.
RiffSizeEqualsWholeFile(riff_size, file_size) == riff_size = file_size

\* riff_size == (file_size - 8)
RiffSizeEquals(riff_size, file_size) == riff_size = file_size - 8

\* A mutated header test that only looks at the RIFF tag.
RiffHeaderOkNoForm(header) == Slice(header, 0, 4) = TagRIFF

\* not (header[:4] != b"RIFF" or header[8:12] != b"WAVE")
RiffHeaderOk(header) ==
  Slice(header, 0, 4) = TagRIFF /\ Slice(header, 8, 12) = TagWAVE

wav_riff_size_matches_file(p, c) ==
  IF ~HasWavSuffix(p) THEN Raised("ValueError", <<>>)
  ELSE IF ~c.exists THEN Raised("OSError", <<"getsize">>)
  ELSE
    LET file_size == Len(c.bytes)
    IN IF file_size < 12 THEN Returned(FALSE, <<"getsize">>)
       ELSE
         LET header == FileRead(c.bytes, 0, 12)
             io     == <<"getsize", "open", "read">>
         IN IF ~RiffHeaderOk(header) THEN Returned(FALSE, io)
            ELSE Returned(
                   RiffSizeEquals(FromBytesLittle(Slice(header, 4, 8)), file_size),
                   io)

----------------------------------------------------------------------------
(* wav_has_loop_points                                                     *)

\* A mutated decoding of numSampleLoops that reads the field one word early.
NumSampleLoopsWrongField(smpl_data) == FromBytesLittle(Slice(smpl_data, 24, 28))

\* int.from_bytes(smpl_data[28:32], byteorder="little", signed=False)
NumSampleLoops(smpl_data) == FromBytesLittle(Slice(smpl_data, 28, 32))

\* The body of `if chunk_id == b"smpl":` for the chunk whose header is at pos.
SmplChunkVerdict(bytes, pos, chunk_size) ==
  IF chunk_size < 36 THEN FALSE
  ELSE LET smpl_data == FileRead(bytes, pos + 8, 36)
       IN IF Len(smpl_data) < 36 THEN FALSE
          ELSE NumSampleLoops(smpl_data) > 0

\* A mutated skip that forgets the padding byte of an odd-sized chunk.
ChunkSkipNoPad(chunk_size) == chunk_size

\* skip = chunk_size + (chunk_size % 2)
ChunkSkip(chunk_size) == chunk_size + (chunk_size % 2)

\* The `while True:` loop with the cursor at pos; io is the access log so far.
RECURSIVE ChunkWalk(_, _, _)
ChunkWalk(bytes, pos, io) ==
  LET chunk_header == FileRead(bytes, pos, 8)
      chunk_id     == Slice(chunk_header, 0, 4)
      chunk_size   == FromBytesLittle(Slice(chunk_header, 4, 8))
  IN IF Len(chunk_header) < 8 THEN Returned(FALSE, Append(io, "read"))
     ELSE IF chunk_id = TagSmpl
       THEN Returned(SmplChunkVerdict(bytes, pos, chunk_size),
                     IF chunk_size < 36 THEN Append(io, "read")
                     ELSE io \o <<"read", "read">>)
     ELSE ChunkWalk(bytes, pos + 8 + ChunkSkip(chunk_size),
                    io \o <<"read", "seek">>)

wav_has_loop_points(p, c) ==
  IF ~HasWavSuffix(p) THEN Raised("ValueError", <<>>)
  ELSE IF ~c.exists THEN Raised("OSError", <<"getsize">>)
  ELSE
    LET file_size == Len(c.bytes)
    IN IF file_size < 12 THEN Returned(FALSE, <<"getsize">>)
       ELSE
         LET header == FileRead(c.bytes, 0, 12)
             io     == <<"getsize", "open", "read">>
         IN IF ~RiffHeaderOk(header) THEN Returned(FALSE, io)
            ELSE ChunkWalk(c.bytes, 12, io)

----------------------------------------------------------------------------
(* wave.open and Wave_read of the standard library (wave.py), which        *)
(* is_wav_silent, wav_has_hard_edges and wav_has_clipping read through.    *)
(* The RIFF chunk is itself a _Chunk: reads inside it end at its declared  *)
(* size, and the file cursor is always 8 + rpos, rpos being the RIFF       *)
(* chunk's size_read.                                                      *)

\* _Chunk.read(n) on the RIFF chunk: the bytes returned.
RiffRead(bytes, riff_size, rpos, n) ==
  IF rpos >= riff_size THEN <<>>
  ELSE FileRead(bytes, 8 + rpos, Min(n, riff_size - rpos))

\* _Chunk.read(n) on the RIFF chunk: its size_read afterwards (the pad byte
\* of an odd-sized chunk is read with the last byte).
RiffPosAfter(bytes, riff_size, rpos, n) ==
  LET got == rpos + Len(RiffRead(bytes, riff_size, rpos, n))
  IN IF rpos < riff_size /\ got = riff_size /\ riff_size % 2 = 1
       THEN got + Len(FileRead(bytes, 8 + got, 1))
       ELSE got

WaveFailed(exc) ==
  [err |-> exc, sampwidth |-> 0, nchannels |-> 0, framesize |-> 0,
   nframes |-> 0, data_off |-> 0, data_size |-> 0, riff_size |-> 0]

\* Wave_read._read_fmt_chunk on a chunk of chunk_size bytes whose payload
\* starts at rpos: "" or the exception raised.
FmtError(bytes, riff_size, rpos, chunk_size) ==
  LET d14   == RiffRead(bytes, riff_size, rpos, Min(14, chunk_size))
      rpos2 == RiffPosAfter(bytes, riff_size, rpos, Min(14, chunk_size))
      d2    == IF chunk_size <= 14 THEN <<>>
               ELSE RiffRead(bytes, riff_size, rpos2, Min(2, chunk_size - 14))
  IN IF Len(d14) < 14 THEN "EOFError"
     ELSE IF FromBytesLittle(Slice(d14, 0, 2)) # 1 THEN "wave.Error"
     ELSE IF Len(d2) < 2 THEN "EOFError"
     ELSE IF (FromBytesLittle(d2) + 7) \div 8 = 0 THEN "wave.Error"
     ELSE IF FromBytesLittle(Slice(d14, 2, 4)) = 0 THEN "wave.Error"
     ELSE ""

\* _Chunk.skip with the RIFF chunk at rpos, of a chunk of which `read` bytes
\* were read: the RIFF position it seeks to (the pad byte of an odd-sized
\* chunk included).
SkipTarget(rpos, chunk_size, read) ==
  rpos + (chunk_size - read) + (chunk_size % 2)

\* The RIFF position after _read_fmt_chunk has read its 14 and 2 bytes.
FmtPosAfter(bytes, riff_size, rpos) ==
  RiffPosAfter(bytes, riff_size, RiffPosAfter(bytes, riff_size, rpos, 14), 2)

\* The `while 1:` loop of Wave_read.initfp with the RIFF chunk at rpos; fmt
\* is what the fmt chunk gave, if one was read.
RECURSIVE WaveChunks(_, _, _, _)
WaveChunks(bytes, riff_size, rpos, fmt) ==
  LET name  == RiffRead(bytes, riff_size, rpos, 4)
      rpos1 == RiffPosAfter(bytes, riff_size, rpos, 4)
      szb   == RiffRead(bytes, riff_size, rpos1, 4)
      rpos2 == RiffPosAfter(bytes, riff_size, rpos1, 4)
      chunk_size == FromBytesLittle(szb)
  IN IF Len(name) < 4 \/ Len(szb) < 4 THEN WaveFailed("wave.Error")
     ELSE IF name = TagFmt THEN
       LET e == FmtError(bytes, riff_size, rpos2, chunk_size)
           d == RiffRead(bytes, riff_size, rpos2, 16)
       IN IF e # "" THEN WaveFailed(e)
          ELSE IF SkipTarget(FmtPosAfter(bytes, riff_size, rpos2),
                             chunk_size, 16) > riff_size
            THEN WaveFailed("RuntimeError")
          ELSE WaveChunks(bytes, riff_size,
                 SkipTarget(FmtPosAfter(bytes, riff_size, rpos2),
                            chunk_size, 16),
                 [read |-> TRUE,
                  nchannels |-> FromBytesLittle(Slice(d, 2, 4)),
                  sampwidth |-> (FromBytesLittle(Slice(d, 14, 16)) + 7) \div 8])
     ELSE IF name = TagData THEN
       IF ~fmt.read THEN WaveFailed("wave.Error")
       ELSE [err |-> "", sampwidth |-> fmt.sampwidth,
             nchannels |-> fmt.nchannels,
             framesize |-> fmt.nchannels * fmt.sampwidth,
             nframes |-> chunk_size \div (fmt.nchannels * fmt.sampwidth),
             data_off |-> rpos2, data_size |-> chunk_size,
             riff_size |-> riff_size]
     ELSE IF SkipTarget(rpos2, chunk_size, 0) > riff_size
       THEN WaveFailed("RuntimeError")
     ELSE WaveChunks(bytes, riff_size, SkipTarget(rpos2, chunk_size, 0), fmt)

\* wave.open(path, "rb") on an existing file: the reader's fields, or err.
WaveOpen(bytes) ==
  LET name == FileRead(bytes, 0, 4)
      szb  == FileRead(bytes, 4, 4)
      riff_size == FromBytesLittle(szb)
  IN IF Len(name) < 4 \/ Len(szb) < 4 THEN WaveFailed("EOFError")
     ELSE IF name # TagRIFF THEN WaveFailed("wave.Error")
     ELSE IF RiffRead(bytes, riff_size, 0, 4) # TagWAVE
       THEN WaveFailed("wave.Error")
     ELSE WaveChunks(bytes, riff_size, RiffPosAfter(bytes, riff_size, 0, 4),
                     [read |-> FALSE, nchannels |-> 0, sampwidth |-> 0])

\* _Chunk.read(size) on the data chunk with size_read = dpos.
DataRead(bytes, w, dpos, size) ==
  IF dpos >= w.data_size THEN <<>>
  ELSE RiffRead(bytes, w.riff_size, w.data_off + dpos,
                Min(size, w.data_size - dpos))

\* The data chunk's size_read after that read.
DataPosAfter(bytes, w, dpos, size) ==
  LET got == dpos + Len(DataRead(bytes, w, dpos, size))
  IN IF dpos < w.data_size /\ got = w.data_size /\ w.data_size % 2 = 1
       THEN got + Len(RiffRead(bytes, w.riff_size, w.data_off + got, 1))
       ELSE got

\* A mutated readframes in which a count of 0 reads to the end of the data.
ReadFramesZeroReadsAll(bytes, w, dpos, nframes) ==
  DataRead(bytes, w, dpos,
           IF nframes = 0 THEN w.data_size ELSE nframes * w.framesize)

\* Wave_read.readframes(nframes) with the data chunk at dpos.
ReadFrames(bytes, w, dpos, nframes) ==
  IF nframes = 0 THEN <<>>
  ELSE DataRead(bytes, w, dpos, nframes * w.framesize)

----------------------------------------------------------------------------
(* is_wav_silent                                                           *)

\* A mutated choice of the silence byte: 0x00 at every width.
SilentByteAlwaysZero(sample_width) == 0

\* silent_byte: 0x80 for 8-bit PCM, 0x00 for the other widths.
SilentByte(sample_width) == IF sample_width = 1 THEN 128 ELSE 0

\* any(b != silent for b in frames)
AnyNotSilent(frames, sample_width) ==
  \E i \in 1..Len(frames) : frames[i] # SilentByte(sample_width)

\* A mutated loop that judges the file by its first chunk alone.
SilentLoopFirstChunkOnly(bytes, w, dpos, chunk_frames, io) ==
  Returned(~AnyNotSilent(ReadFrames(bytes, w, dpos, chunk_frames), w.sampwidth),
           Append(io, "read"))

\* The `while True:` loop with the data chunk read up to dpos.
RECURSIVE SilentLoop(_, _, _, _, _)
SilentLoop(bytes, w, dpos, chunk_frames, io) ==
  LET frames == ReadFrames(bytes, w, dpos, chunk_frames)
  IN IF frames = <<>> THEN Returned(TRUE, Append(io, "read"))
     ELSE IF AnyNotSilent(frames, w.sampwidth)
       THEN Returned(FALSE, Append(io, "read"))
     ELSE SilentLoop(bytes, w,
                     DataPosAfter(bytes, w, dpos, chunk_frames * w.framesize),
                     chunk_frames, Append(io, "read"))

is_wav_silent(p, c, chunk_frames) ==
  IF ~HasWavSuffix(p) THEN Raised("ValueError", <<>>)
  ELSE IF ~c.exists THEN Raised("OSError", <<"open">>)
  ELSE
    LET w  == WaveOpen(c.bytes)
        io == <<"open", "read">>
    IN IF w.err # "" THEN Raised(w.err, io)
       ELSE IF w.nframes = 0 THEN Returned(TRUE, io)
       ELSE SilentLoop(c.bytes, w, 0, chunk_frames, io)

----------------------------------------------------------------------------
(* Sample decoding, _frame_peak_abs                                        *)

Abs(v) == IF v < 0 THEN -v ELSE v

RECURSIVE Pow256(_)
Pow256(n) == IF n = 0 THEN 1 ELSE 256 * Pow256(n - 1)

\* int.from_bytes(bs, byteorder="little", signed=True): two's complement,
\* the sign taken from the top bit of the last byte.
FromBytesLittleSigned(bs) ==
  LET n   == Len(bs)
      top == bs[n]
  IN FromBytesLittle(SubSeq(bs, 1, n - 1))
       + Pow256(n - 1) * (IF top >= 128 THEN top - 256 ELSE top)

\* A mutated decoding that reads an 8-bit sample as a signed byte.
DecodeSampleSigned8(sample, sample_width) == FromBytesLittleSigned(sample)

\* The value of one sample as _frame_peak_abs computes it: the three
\* branches on sample_width.
DecodeSample(sample, sample_width) ==
  IF sample_width = 1 THEN sample[1] - 128
  ELSE IF sample_width = 3
    THEN FromBytesLittleSigned(
           sample \o <<IF sample[3] >= 128 THEN 255 ELSE 0>>)
  ELSE FromBytesLittleSigned(sample)

\* The value of one sample as the inner loop of wav_has_clipping computes
\* it: its own copy of the three branches on sample_width.
ClipDecodeSample(sample, sample_width) ==
  IF sample_width = 1 THEN sample[1] - 128
  ELSE IF sample_width = 3
    THEN LET sign == IF sample[3] >= 128 THEN <<255>> ELSE <<0>>
         IN FromBytesLittleSigned(sample \o sign)
  ELSE FromBytesLittleSigned(sample)

\* max_amplitude = 127 if sample_width == 1 else (1 << (8 * sample_width - 1)) - 1
\* (written so that no intermediate value exceeds 2^31 - 1).
MaxAmplitude(sample_width) ==
  IF sample_width = 1 THEN 127
  ELSE 2 * (Pow256(sample_width - 1) * 64 - 1) + 1

SetMax(S) == IF S = {} THEN 0 ELSE CHOOSE x \in S : \A y \in S : y <= x
SetMin(S) == CHOOSE x \in S : \A y \in S : x <= y

\* A mutated frame peak that takes a frame cut short for full scale.
FramePeakAbsShortLoud(frame_bytes, sample_width, channels) ==
  IF Len(frame_bytes) < sample_width * channels THEN MaxAmplitude(sample_width)
  ELSE SetMax({Abs(DecodeSample(
                 Slice(frame_bytes, ch * sample_width, (ch + 1) * sample_width),
                 sample_width)) : ch \in 0..(channels - 1)})

\* _frame_peak_abs(frame_bytes, sample_width, channels)
FramePeakAbs(frame_bytes, sample_width, channels) ==
  IF Len(frame_bytes) < sample_width * channels THEN 0
  ELSE SetMax({Abs(DecodeSample(
                 Slice(frame_bytes, ch * sample_width, (ch + 1) * sample_width),
                 sample_width)) : ch \in 0..(channels - 1)})

\* Wave_read.getcomptype(): the reader sets 'NONE' whenever it opens a file.
WaveCompType(w) == "NONE"

\* floor(max_amplitude * num / den) for a ratio num/den >= 0.
ScaleAmplitude(max_amplitude, num, den) == (max_amplitude * num) \div den

----------------------------------------------------------------------------
(* wav_has_hard_edges                                                      *)

\* A mutated threshold test: at or above the threshold.
NoNearZeroAtOrAbove(min_peak, threshold) == min_peak >= threshold

\* no_near_zero_at_start = start_min_peak > threshold (and the same at end)
NoNearZero(min_peak, threshold) == min_peak > threshold

\* The minimum tracked by the `for i in range(window)` loop over the frames
\* of data, starting from max_amplitude.
EdgeMinPeak(data, w, window, max_amplitude) ==
  SetMin({max_amplitude} \cup
         {FramePeakAbs(Slice(data, i * w.framesize, (i + 1) * w.framesize),
                       w.sampwidth, w.nchannels) : i \in 0..(window - 1)})

\* threshold = max(1, int(max_amplitude * max(0.0, zero_threshold_ratio)))
EdgeThreshold(max_amplitude, num, den) ==
  Max(1, ScaleAmplitude(max_amplitude, Max(0, num), den))

wav_has_hard_edges(p, c, num, den, edge_window_frames) ==
  IF ~HasWavSuffix(p) THEN Raised("ValueError", <<>>)
  ELSE IF ~c.exists THEN Raised("OSError", <<"open">>)
  ELSE
    LET w  == WaveOpen(c.bytes)
        io == <<"open", "read">>
    IN IF w.err # "" THEN Raised(w.err, io)
       ELSE IF WaveCompType(w) # "NONE" THEN Raised("ValueError", io)
       ELSE IF w.nframes = 0 THEN Returned(FALSE, io)
       ELSE IF w.sampwidth \notin {1, 2, 3, 4} THEN Raised("ValueError", io)
       ELSE
         LET max_amplitude == MaxAmplitude(w.sampwidth)
             threshold  == EdgeThreshold(max_amplitude, num, den)
             window     == Max(1, Min(edge_window_frames, w.nframes))
             start_data == ReadFrames(c.bytes, w, 0, window)
             pos        == (w.nframes - window) * w.framesize
             end_data   == ReadFrames(c.bytes, w, pos, window)
         IN \* setpos, then the seeks of readframes inside the RIFF chunk
            IF w.data_off + pos > w.riff_size
              THEN Raised("RuntimeError", io \o <<"read", "seek">>)
            ELSE Returned(
                   \/ NoNearZero(EdgeMinPeak(start_data, w, window,
                                             max_amplitude), threshold)
                   \/ NoNearZero(EdgeMinPeak(end_data, w, window,
                                             max_amplitude), threshold),
                   io \o <<"read", "seek", "read">>)

----------------------------------------------------------------------------
(* wav_has_clipping                                                        *)

\* The samples of a chunk that audioop sees: every whole sample.
ChunkSamples(frames, sample_width) ==
  [i \in 1..(Len(frames) \div sample_width) |->
     Slice(frames, (i - 1) * sample_width, i * sample_width)]

\* audioop.max(frames, width) for widths 2, 3, 4, and for width 1
\* audioop.max(audioop.bias(frames, 1, -128), 1): the largest absolute value
\* (bias works modulo 256 on the raw byte, max reads the result as signed).
ChunkPeak(frames, sample_width) ==
  LET ss == ChunkSamples(frames, sample_width)
  IN SetMax({Abs(IF sample_width = 1
                   THEN FromBytesLittleSigned(<<(ss[i][1] + 128) % 256>>)
                   ELSE FromBytesLittleSigned(ss[i])) : i \in 1..Len(ss)})

\* The hits the two `for` loops find in the whole frames of a chunk.
ChunkHits(frames, w, threshold) ==
  LET frame_count == Len(frames) \div w.framesize
  IN Cardinality({i \in 1..(frame_count * w.nchannels) :
       Abs(ClipDecodeSample(
             Slice(frames, (i - 1) * w.sampwidth, i * w.sampwidth),
             w.sampwidth)) >= threshold})

\* threshold = max(1, int(max_amplitude * min(1.0, max(0.0, clip_threshold_ratio))))
ClipThreshold(max_amplitude, num, den) ==
  Max(1, IF num > den THEN max_amplitude
         ELSE ScaleAmplitude(max_amplitude, Max(0, num), den))

\* A mutated loop that counts the hits of each chunk on their own.
RECURSIVE ClipLoopPerChunk(_, _, _, _, _, _, _, _)
ClipLoopPerChunk(bytes, w, dpos, chunk_frames, threshold, min_hits, hits, io) ==
  LET frames == ReadFrames(bytes, w, dpos, chunk_frames)
      next   == DataPosAfter(bytes, w, dpos, chunk_frames * w.framesize)
  IN IF frames = <<>> THEN Returned(FALSE, Append(io, "read"))
     ELSE IF Len(frames) % w.sampwidth # 0
       THEN Raised("audioop.error", Append(io, "read"))
     ELSE IF ChunkHits(frames, w, threshold) >= min_hits
       THEN Returned(TRUE, Append(io, "read"))
     ELSE ClipLoopPerChunk(bytes, w, next, chunk_frames, threshold, min_hits,
                           0, Append(io, "read"))

\* The `while True:` loop with the data chunk read up to dpos and
\* clipped_hits = hits.  audioop refuses a chunk that is not a whole number
\* of samples.
RECURSIVE ClipLoop(_, _, _, _, _, _, _, _)
ClipLoop(bytes, w, dpos, chunk_frames, threshold, min_hits, hits, io) ==
  LET frames == ReadFrames(bytes, w, dpos, chunk_frames)
      next   == DataPosAfter(bytes, w, dpos, chunk_frames * w.framesize)
  IN IF frames = <<>> THEN Returned(FALSE, Append(io, "read"))
     ELSE IF Len(frames) % w.sampwidth # 0
       THEN Raised("audioop.error", Append(io, "read"))
     ELSE IF ChunkPeak(frames, w.sampwidth) < threshold
       THEN ClipLoop(bytes, w, next, chunk_frames, threshold, min_hits, hits,
                     Append(io, "read"))
     ELSE IF hits + ChunkHits(frames, w, threshold) >= min_hits
       THEN Returned(TRUE, Append(io, "read"))
     ELSE ClipLoop(bytes, w, next, chunk_frames, threshold, min_hits,
                   hits + ChunkHits(frames, w, threshold), Append(io, "read"))

wav_has_clipping(p, c, num, den, min_clipped_samples, chunk_frames) ==
  IF ~HasWavSuffix(p) THEN Raised("ValueError", <<>>)
  ELSE IF ~c.exists THEN Raised("OSError", <<"open">>)
  ELSE
    LET w  == WaveOpen(c.bytes)
        io == <<"open", "read">>
    IN IF w.err # "" THEN Raised(w.err, io)
       ELSE IF WaveCompType(w) # "NONE" THEN Raised("ValueError", io)
       ELSE IF w.sampwidth \notin {1, 2, 3, 4} THEN Raised("ValueError", io)
       ELSE IF w.nchannels <= 0 THEN Returned(FALSE, io)
       ELSE ClipLoop(c.bytes, w, 0, chunk_frames,
                     ClipThreshold(MaxAmplitude(w.sampwidth), num, den),
                     Max(1, min_clipped_samples), 0, io)

----------------------------------------------------------------------------
(* Files the checks are run on                                             *)

\* struct.pack("<I", n): the writer's side of a 32-bit little-endian field.
Enc32(n) == <<n % 256, (n \div 256) % 256, (n \div 65536) % 256,
              (n \div 16777216) % 256>>
Enc16(n) == <<n % 256, (n \div 256) % 256>>

Fill(n, b) == [i \in 1..n |-> b]

\* A chunk as it lies in a file: tag, declared size, the bytes that follow.
MkChunk(tag, declared, payload) == tag \o Enc32(declared) \o payload

\* A well-formed chunk: the payload, and a pad byte when its size is odd.
WellFormed(tag, payload) ==
  MkChunk(tag, Len(payload), payload \o Fill(Len(payload) % 2, 0))

\* The 36-byte prefix of a sampler chunk; numSampleLoops is at offset 28.
\* The other fields hold nonzero bytes.
SmplPrefix(loops) == Fill(28, 7) \o Enc32(loops) \o Fill(4, 9)

TagLIST == <<76, 73, 83, 84>>
TagRIFX == <<82, 73, 70, 88>>
TagWAVX == <<87, 65, 86, 88>>

\* The chunks the files of the loop-point check are put together from.
LoopChunkMenu ==
  << WellFormed(TagSmpl, SmplPrefix(1)),            \* one loop
     WellFormed(TagSmpl, SmplPrefix(0)),            \* no loop
     WellFormed(TagSmpl, SmplPrefix(256)),          \* 256 loops: low byte 0
     WellFormed(TagSmpl, Fill(10, 7)),              \* declared size 10
     WellFormed(TagLIST, <<5>>),                    \* odd size, padded
     WellFormed(TagLIST, TagSmpl \o Enc32(36)),     \* 'smpl' inside a payload
     MkChunk(TagLIST, 1000, <<5, 5>>) >>            \* size points past the end

RECURSIVE Concat(_)
Concat(ss) == IF ss = <<>> THEN <<>> ELSE Head(ss) \o Concat(Tail(ss))

\* Sequences of at most n elements of S.
SeqUpTo(S, n) == UNION {[1..k -> S] : k \in 0..n}

MaxChunks == 3

\* The body made of the chunks of menu that the indices ks name, in order.
Body(menu, ks) == Concat([i \in 1..Len(ks) |-> menu[ks[i]]])

\* The choices of at most MaxChunks chunks of menu.
ChunkChoices(menu) == SeqUpTo(1..Len(menu), MaxChunks)

\* A RIFF file: the 12-byte header with the size field as given, and a body.
MkRiff(magic, size, form, body) == magic \o Enc32(size) \o form \o body
Riff(body) == MkRiff(TagRIFF, 4 + Len(body), TagWAVE, body)

\* A file with its last k bytes cut off.
CutTail(bytes, k) == SubSeq(bytes, 1, Max(0, Len(bytes) - k))

LoopCuts == {0, 1, 5, 9, 37}

\* The files of the loop-point check: chunk sequences under a good header,
\* whole or cut short; the same under a bad header; files with no room for
\* a header.
IsLoopFile(c) ==
  \/ \E ks \in ChunkChoices(LoopChunkMenu), k \in LoopCuts :
       c = AFile(CutTail(Riff(Body(LoopChunkMenu, ks)), k))
  \/ \E ks \in ChunkChoices(LoopChunkMenu), bad \in {1, 2} :
       LET b == Body(LoopChunkMenu, ks)
       IN c = AFile(MkRiff(IF bad = 1 THEN TagRIFX ELSE TagRIFF, 4 + Len(b),
                           IF bad = 2 THEN TagWAVX ELSE TagWAVE, b))
  \/ \E n \in {0, 4, 11} : c = AFile(SubSeq(Riff(<<>>), 1, n))

\* The fmt chunk of a WAV file: format tag, channels, rate, byte rate, block
\* align, bits per sample.
FmtChunk(tag, channels, bits) ==
  WellFormed(TagFmt, Enc16(tag) \o Enc16(channels) \o Enc32(8000)
                     \o Enc32(1000 * channels * bits)
                     \o Enc16((channels * bits) \div 8) \o Enc16(bits))

\* The bytes of one sample of width w: "Z" the zero code, "L" the value 1,
\* "H" the value 2^(8w-2), "X" the largest value, "N" the most negative one
\* at widths 1 to 3 and its neighbour -(2^31 - 1) at width 4 (the absolute
\* value of -2^31 is beyond the 32-bit integers of TLC; widths 2 and 4 are
\* decoded by the same branch of the code).
SampleBytes(w, kind) ==
  IF w = 1 THEN
    CASE kind = "Z" -> <<128>>
      [] kind = "L" -> <<129>>
      [] kind = "H" -> <<192>>
      [] kind = "X" -> <<255>>
      [] kind = "N" -> <<0>>
  ELSE
    CASE kind = "Z" -> Fill(w, 0)
      [] kind = "L" -> <<1>> \o Fill(w - 1, 0)
      [] kind = "H" -> Fill(w - 1, 0) \o <<64>>
      [] kind = "X" -> Fill(w - 1, 255) \o <<127>>
      [] kind = "N" -> (IF w = 4 THEN <<1>> ELSE <<0>>) \o Fill(w - 2, 0)
                       \o <<128>>

SampleData(w, kinds) == Concat([i \in 1..Len(kinds) |-> SampleBytes(w, kinds[i])])

MaxSamples == 3

\* A PCM file of the given width and channel count whose data chunk holds
\* the samples `kinds` and then the stray bytes `tail`.  Layouts: 1 plain;
\* 2 an odd-sized chunk between fmt and data; 3 the data chunk declares 4
\* bytes more than the file holds; 4 the RIFF size field leaves out the last
\* 2 bytes of the file; 5 an 18-byte fmt chunk and a chunk after data.
PcmFile(w, channels, kinds, tail, layout) ==
  LET data == SampleData(w, kinds) \o tail
      fmt  == IF layout = 5
                THEN MkChunk(TagFmt, 18,
                       SubSeq(FmtChunk(1, channels, 8 * w), 9, 24) \o <<0, 0>>)
                ELSE FmtChunk(1, channels, 8 * w)
      mid  == IF layout = 2 THEN WellFormed(TagLIST, <<5, 6, 7>>) ELSE <<>>
      dat  == IF layout = 3
                THEN MkChunk(TagData, Len(data) + 4, data)
                ELSE WellFormed(TagData, data)
      post == IF layout = 5 THEN WellFormed(TagSmpl, SmplPrefix(1)) ELSE <<>>
      body == fmt \o mid \o dat \o post
  IN AFile(MkRiff(TagRIFF, 4 + Len(body) - (IF layout = 4 THEN 2 ELSE 0),
                  TagWAVE, body))

Widths   == {1, 2, 3, 4}
Channels == {1, 2}

\* The PCM files of the given layouts whose samples are of the given kinds,
\* with at most n samples and one of the given stray tails.
IsPcmFile(c, kindset, n, tails, layouts) ==
  \E w \in Widths, ch \in Channels, kinds \in SeqUpTo(kindset, n),
     tail \in tails, layout \in layouts :
       c = PcmFile(w, ch, kinds, tail, layout)

\* Paths, as character codes.
P_a_wav   == <<97, 46, 119, 97, 118>>            \* a.wav
P_a_WAV   == <<97, 46, 87, 65, 86>>              \* a.WAV
P_a_Wav   == <<97, 46, 87, 97, 118>>             \* a.Wav
P_d_b_wav == <<100, 47, 98, 46, 119, 97, 118>>   \* d/b.wav
P_a_txt   == <<97, 46, 116, 120, 116>>           \* a.txt
P_a_wave  == <<97, 46, 119, 97, 118, 101>>       \* a.wave
P_wav     == <<119, 97, 118>>                    \* wav
P_dotwav  == <<46, 119, 97, 118>>                \* .wav
P_dwav_a  == <<100, 46, 119, 97, 118, 47, 97>>   \* d.wav/a
P_a_wav_  == <<97, 46, 119, 97, 118, 46>>        \* a.wav.

WavPaths   == {P_a_wav, P_a_WAV, P_a_Wav, P_d_b_wav}
OtherPaths == {P_a_txt, P_a_wave, P_wav, P_dotwav, P_dwav_a, P_a_wav_}

----------------------------------------------------------------------------
(* State                                                                   *)

NoArgs == [chunk_frames |-> 0, num |-> 0, den |-> 1, min_clipped |-> 0,
           window |-> 0]
NoOut  == [res |-> "none", io |-> <<>>]

\* No batch run exists.
BatchIdle ==
  /\ files = <<>>
  /\ checks_arg = [dict |-> FALSE, items |-> <<>>]
  /\ checks = [k \in {} |-> FALSE]
  /\ issues = [k \in {} |-> <<>>]
  /\ bpc = "none"
  /\ idx = 0
  /\ progress = 0
  /\ emitted = <<>>
  /\ calls = <<>>

batchVars ==
  <<files, checks_arg, checks, issues, bpc, idx, progress, emitted, calls>>

\* No sample is being decoded, no stepwise invocation is under way, and
\* there is no main window.
NoDec == [width |-> 0, sample |-> <<>>, done |-> FALSE, frame |-> 0,
          inline |-> 0]
NoWin == [view |-> "none"]
NoFc == [at |-> "none"]
RestIdle ==
  /\ dec = NoDec
  /\ procs = <<>>
  /\ win = NoWin
  /\ fc = NoFc

restVars == <<dec, procs, win, fc>>

\* No single check has been called; the file at path is content.
CheckIdle(paths) ==
  /\ path \in paths
  /\ op = "none"
  /\ args = NoArgs
  /\ out = NoOut

Call_wav_riff_size_matches_file ==
  /\ op = "none"
  /\ op' = "wav_riff_size_matches_file"
  /\ args' = NoArgs
  /\ out' = wav_riff_size_matches_file(path, content)
  /\ UNCHANGED <<path, content, batchVars, restVars>>

Call_is_wav_silent ==
  /\ op = "none"
  /\ \E chunk_frames \in 1..3 :
       /\ args' = [NoArgs EXCEPT !.chunk_frames = chunk_frames]
       /\ out' = is_wav_silent(path, content, chunk_frames)
  /\ op' = "is_wav_silent"
  /\ UNCHANGED <<path, content, batchVars, restVars>>

\* The ratios handed to the amplitude checks, as fractions num/den that
\* floating point holds exactly: -1/2, 0, 1/2, 1 and 3/2.
Ratios == {<<-1, 2>>, <<0, 1>>, <<1, 2>>, <<1, 1>>, <<3, 2>>}

\* max_amplitude * ratio stays within 32 bits.
Representable(c, r) ==
  r[1] <= r[2] \/ ~c.exists \/ WaveOpen(c.bytes).sampwidth # 4

Call_wav_has_hard_edges ==
  /\ op = "none"
  /\ \E r \in Ratios, window \in 0..2 :
       /\ Representable(content, r)
       /\ args' = [NoArgs EXCEPT !.num = r[1], !.den = r[2], !.window = window]
       /\ out' = wav_has_hard_edges(path, content, r[1], r[2], window)
  /\ op' = "wav_has_hard_edges"
  /\ UNCHANGED <<path, content, batchVars, restVars>>

Call_wav_has_clipping ==
  /\ op = "none"
  /\ \E r \in Ratios, min_clipped \in 1..2, chunk_frames \in 1..2 :
       /\ args' = [NoArgs EXCEPT !.num = r[1], !.den = r[2],
                                 !.min_clipped = min_clipped,
                                 !.chunk_frames = chunk_frames]
       /\ out' = wav_has_clipping(path, content, r[1], r[2], min_clipped,
                                  chunk_frames)
  /\ op' = "wav_has_clipping"
  /\ UNCHANGED <<path, content, batchVars, restVars>>

Call_wav_has_loop_points ==
  /\ op = "none"
  /\ op' = "wav_has_loop_points"
  /\ args' = NoArgs
  /\ out' = wav_has_loop_points(path, content)
  /\ UNCHANGED <<path, content, batchVars, restVars>>

----------------------------------------------------------------------------
(* wav_has_loop_points on files of up to MaxChunks chunks                  *)

InitLoop == IsLoopFile(content) /\ CheckIdle({P_a_wav}) /\ BatchIdle /\ RestIdle
NextLoop == Call_wav_has_loop_points
SpecLoop == InitLoop /\ [][NextLoop]_vars

\* The offset of the first chunk with id 'smpl' met when walking the chunks
\* of b from offset o by their declared sizes, padded to even; -1 if none.
RECURSIVE C1_FirstSmpl(_, _)
C1_FirstSmpl(b, o) ==
  IF o + 8 > Len(b) THEN -1
  ELSE IF <<b[o + 1], b[o + 2], b[o + 3], b[o + 4]>> = <<115, 109, 112, 108>>
    THEN o
  ELSE LET s == b[o + 5] + 256 * b[o + 6] + 65536 * b[o + 7]
                + 16777216 * b[o + 8]
       IN C1_FirstSmpl(b, o + 8 + s + (s % 2))

C1_DeclaredSize(b, o) ==
  b[o + 5] + 256 * b[o + 6] + 65536 * b[o + 7] + 16777216 * b[o + 8]

C1_Expected(b) ==
  /\ Len(b) >= 12
  /\ <<b[1], b[2], b[3], b[4]>> = <<82, 73, 70, 70>>
  /\ <<b[9], b[10], b[11], b[12]>> = <<87, 65, 86, 69>>
  /\ LET o == C1_FirstSmpl(b, 12)
     IN /\ o >= 0
        /\ C1_DeclaredSize(b, o) >= 36
        /\ Len(b) >= o + 8 + 36
        /\ \E i \in 29..32 : b[o + 8 + i] > 0

\* C1: wav_has_loop_points on a .wav path returns true exactly when the file
\* has at least 12 bytes, the RIFF/WAVE magic, and the first chunk with id
\* 'smpl' met when walking the chunks from offset 12 declares a size >= 36,
\* has 36 payload bytes in the file and a numSampleLoops (payload bytes
\* 28..31, little-endian) greater than 0; otherwise it returns false, and it
\* never raises.
C1_LoopPointsContract ==
  (op = "wav_has_loop_points" /\ content.exists)
    => out.res = (IF C1_Expected(content.bytes) THEN "True" ELSE "False")

\* A file whose sampler chunk comes after an odd-sized chunk and its pad byte,
\* and declares a loop.
C1_Witness ==
  /\ op = "wav_has_loop_points"
  /\ out.res = "True"
  /\ C1_FirstSmpl(content.bytes, 12) = 22

----------------------------------------------------------------------------
(* wav_riff_size_matches_file on headers with right and wrong size fields  *)

RiffChunkMenu ==
  << WellFormed(TagLIST, <<5>>),
     WellFormed(TagLIST, Fill(300, 1)),
     WellFormed(TagSmpl, SmplPrefix(1)) >>

\* Size fields for a file of n bytes: the right one and wrong ones.
RiffSizeFields(n) == {n - 8, n - 7, n - 9, n, 0, (n - 8) * 256, n - 8 + 256}

\* The files of the RIFF size check: chunk sequences under a header with a
\* right or wrong magic and a right or wrong size field, and files shorter
\* than a header whose size field fits their length.
IsRiffFile(c) ==
  \/ \E ks \in ChunkChoices(RiffChunkMenu), m \in {TagRIFF, TagRIFX},
        f \in {TagWAVE, TagWAVX} :
       LET b == Body(RiffChunkMenu, ks)
       IN \E sz \in RiffSizeFields(12 + Len(b)) :
            c = AFile(MkRiff(m, sz, f, b))
  \/ \E n \in 0..11 :
       c = AFile(SubSeq(MkRiff(TagRIFF, Max(0, n - 8), TagWAVE, <<>>), 1, n))

InitRiff == IsRiffFile(content) /\ CheckIdle({P_a_wav, P_a_WAV}) /\ BatchIdle /\ RestIdle
NextRiff == Call_wav_riff_size_matches_file
SpecRiff == InitRiff /\ [][NextRiff]_vars

\* The file has the header and the size field that the format asks for.
C2_Expected(b) ==
  /\ Len(b) >= 12
  /\ <<b[1], b[2], b[3], b[4]>> = <<82, 73, 70, 70>>
  /\ <<b[9], b[10], b[11], b[12]>> = <<87, 65, 86, 69>>
  /\ b[5] + 256 * b[6] + 65536 * b[7] + 16777216 * b[8] = Len(b) - 8

\* C2: wav_riff_size_matches_file on a .wav path returns true exactly when
\* the file has at least 12 bytes, bytes 0..3 are 'RIFF', bytes 8..11 are
\* 'WAVE' and the little-endian 32-bit field in bytes 4..7 equals the file
\* size minus 8; otherwise it returns false, and it never raises.
C2_RiffSizeContract ==
  (op = "wav_riff_size_matches_file" /\ content.exists)
    => out.res = (IF C2_Expected(content.bytes) THEN "True" ELSE "False")

\* A file of more than 255 bytes (two size bytes in use) with the right size.
C2_Witness ==
  /\ op = "wav_riff_size_matches_file"
  /\ out.res = "True"
  /\ content.bytes[6] > 0

----------------------------------------------------------------------------
(* is_wav_silent on PCM files of up to MaxSamples samples                  *)

InitSilent ==
  /\ IsPcmFile(content, {"Z", "L", "N"}, MaxSamples, {<<>>, <<0>>, <<128>>},
               1..5)
  /\ CheckIdle({P_a_wav})
  /\ BatchIdle /\ RestIdle
NextSilent == Call_is_wav_silent
SpecSilent == InitSilent /\ [][NextSilent]_vars

\* The file is there and wave.open accepts it.
Readable == content.exists /\ WaveOpen(content.bytes).err = ""

\* The sample data: what the reader yields for the whole data chunk.
WholeData ==
  LET w == WaveOpen(content.bytes)
  IN DataRead(content.bytes, w, 0, w.data_size)

C3_AllSilent ==
  LET w == WaveOpen(content.bytes)
  IN \A i \in 1..Len(WholeData) :
       WholeData[i] = (IF w.sampwidth = 1 THEN 128 ELSE 0)

\* C3: for a readable PCM .wav file and chunk_frames >= 1, is_wav_silent
\* returns true exactly when the file has zero frames or every byte of its
\* sample data (what the reader yields for the whole data chunk) is the
\* silence byte, 0x80 at sample width 1 and 0x00 at every other width.
C3_SilentContract ==
  (op = "is_wav_silent" /\ Readable /\ args.chunk_frames >= 1)
    => out.res = (IF WaveOpen(content.bytes).nframes = 0 \/ C3_AllSilent
                    THEN "True" ELSE "False")

\* An 8-bit file read one frame at a time whose first frame is silent and in
\* which a later byte is not.
C3_Witness ==
  /\ op = "is_wav_silent"
  /\ Readable
  /\ args.chunk_frames = 1
  /\ WaveOpen(content.bytes).sampwidth = 1
  /\ WaveOpen(content.bytes).nframes >= 2
  /\ WholeData[1] = 128
  /\ out.res = "False"

----------------------------------------------------------------------------
(* wav_has_clipping on PCM files of up to MaxSamples samples               *)

InitClip ==
  /\ IsPcmFile(content, {"Z", "H", "X", "N"}, MaxSamples, {<<>>, <<0>>}, {1})
  /\ CheckIdle({P_a_wav})
  /\ BatchIdle /\ RestIdle
NextClip == Call_wav_has_clipping
SpecClip == InitClip /\ [][NextClip]_vars

\* The value of the sample s of width w: unsigned less 128 at width 1,
\* little-endian two's complement otherwise.
C4_Value(s, w) ==
  IF w = 1 THEN s[1] - 128
  ELSE LET low == IF w = 2 THEN s[1]
                  ELSE IF w = 3 THEN s[1] + 256 * s[2]
                  ELSE s[1] + 256 * s[2] + 65536 * s[3]
           top == IF s[w] >= 128 THEN s[w] - 256 ELSE s[w]
       IN low + Pow256(w - 1) * top

C4_Threshold(w) ==
  LET amp == IF w = 1 THEN 127 ELSE IF w = 2 THEN 32767
             ELSE IF w = 3 THEN 8388607 ELSE 2147483647
  IN Max(1, IF args.num < 0 THEN 0
            ELSE IF args.num > args.den THEN amp
            ELSE (amp * args.num) \div args.den)

C4_ClippedSamples ==
  LET wv == WaveOpen(content.bytes)
      n  == (Len(WholeData) \div wv.framesize) * wv.nchannels
  IN Cardinality({i \in 1..n :
       Abs(C4_Value(SubSeq(WholeData, (i - 1) * wv.sampwidth + 1,
                           i * wv.sampwidth), wv.sampwidth))
         >= C4_Threshold(wv.sampwidth)})

\* C4: for a PCM .wav file of width 1 to 4 with at least one channel,
\* chunkFrames >= 1 and minClippedSamples >= 1, wav_has_clipping returns true
\* exactly when the number of samples of the file (each channel of each
\* frame) whose absolute value is >= max(1, floor(maxAmplitude *
\* clamp(ratio, 0, 1))) is at least minClippedSamples.
C4_ClippingContract ==
  (/\ op = "wav_has_clipping"
   /\ Readable
   /\ WaveOpen(content.bytes).sampwidth \in 1..4
   /\ args.chunk_frames >= 1
   /\ args.min_clipped >= 1)
    => out.res = (IF C4_ClippedSamples >= args.min_clipped
                    THEN "True" ELSE "False")

----------------------------------------------------------------------------
(* wav_has_hard_edges on PCM files of up to MaxSamples + 1 samples         *)

InitEdges ==
  /\ IsPcmFile(content, {"Z", "X", "N"}, MaxSamples + 1, {<<>>, <<0>>}, {1})
  /\ CheckIdle({P_a_wav})
  /\ BatchIdle /\ RestIdle
NextEdges == Call_wav_has_hard_edges
SpecEdges == InitEdges /\ [][NextEdges]_vars

\* The largest absolute sample value of width w.
C5_Amplitude(w) ==
  IF w = 1 THEN 127 ELSE IF w = 2 THEN 32767
  ELSE IF w = 3 THEN 8388607 ELSE 2147483647

C5_Threshold(w) == Max(1, (C5_Amplitude(w) * args.num) \div args.den)

C5_Window == Max(1, Min(args.window, WaveOpen(content.bytes).nframes))

\* The peak of frame i (counted from 0) of the sample data.
C5_FramePeak(i) ==
  LET wv == WaveOpen(content.bytes)
  IN IF (i + 1) * wv.framesize > Len(WholeData) THEN 0
     ELSE SetMax({Abs(C4_Value(SubSeq(WholeData,
                                      i * wv.framesize + ch * wv.sampwidth + 1,
                                      i * wv.framesize + (ch + 1) * wv.sampwidth),
                               wv.sampwidth)) : ch \in 0..(wv.nchannels - 1)})

C5_MinPeak(first) == SetMin({C5_FramePeak(i) : i \in first..(first + C5_Window - 1)})

C5_Expected ==
  LET wv == WaveOpen(content.bytes)
  IN \/ C5_MinPeak(0) > C5_Threshold(wv.sampwidth)
     \/ C5_MinPeak(wv.nframes - C5_Window) > C5_Threshold(wv.sampwidth)

\* C5: for a PCM .wav file with at least one frame and width 1 to 4,
\* wav_has_hard_edges returns true exactly when the minimum frame peak over
\* the first `window` frames, or over the last `window` frames, exceeds
\* threshold = max(1, floor(maxAmplitude * zeroThresholdRatio)), where
\* window = max(1, min(edgeWindowFrames, totalFrames)); the peak of a frame
\* is the largest absolute value of its channels, 0 for a frame cut short.
C5_HardEdgesContract ==
  (/\ op = "wav_has_hard_edges"
   /\ Readable
   /\ WaveOpen(content.bytes).nframes >= 1
   /\ WaveOpen(content.bytes).sampwidth \in 1..4)
    => out.res = (IF C5_Expected THEN "True" ELSE "False")

----------------------------------------------------------------------------
(* The five checks on paths with and without a .wav suffix, and on files   *)
(* that are absent, odd or ordinary                                        *)

\* An ordinary 16-bit mono file: a sampler chunk of declared size 10, then
\* two silent frames.
UndersizedSmplFile ==
  AFile(Riff(FmtChunk(1, 1, 16) \o WellFormed(TagSmpl, Fill(10, 7))
             \o WellFormed(TagData, <<0, 0, 0, 0>>)))

OrdinaryFile == PcmFile(2, 1, <<"X", "Z">>, <<>>, 5)

AnyFiles ==
  {NoFile, OrdinaryFile, UndersizedSmplFile}
  \cup {AFile(SubSeq(OrdinaryFile.bytes, 1, n)) : n \in {0, 4, 11}}
  \cup {AFile(MkRiff(TagRIFX, Len(OrdinaryFile.bytes) - 8, TagWAVE,
                     SubSeq(OrdinaryFile.bytes, 13, Len(OrdinaryFile.bytes)))),
        AFile(MkRiff(TagRIFF, Len(OrdinaryFile.bytes) - 8, TagWAVX,
                     SubSeq(OrdinaryFile.bytes, 13, Len(OrdinaryFile.bytes))))}
  \cup {PcmFile(2, 1, <<"Z">>, <<0>>, 1), PcmFile(2, 1, <<"X", "X">>, <<0>>, 1),
        PcmFile(1, 2, <<"X", "X", "X">>, <<>>, 1),
        PcmFile(2, 2, <<"Z", "Z", "Z">>, <<>>, 1),
        PcmFile(3, 1, <<"N">>, <<1, 1>>, 1)}

\* The outcome of the check called name on path p and file c with the
\* arguments a.
CheckOutcome(name, p, c, a) ==
  CASE name = "is_wav_silent" -> is_wav_silent(p, c, a.chunk_frames)
    [] name = "wav_riff_size_matches_file" -> wav_riff_size_matches_file(p, c)
    [] name = "wav_has_loop_points" -> wav_has_loop_points(p, c)
    [] name = "wav_has_hard_edges" ->
         wav_has_hard_edges(p, c, a.num, a.den, a.window)
    [] name = "wav_has_clipping" ->
         wav_has_clipping(p, c, a.num, a.den, a.min_clipped, a.chunk_frames)

InitAny ==
  /\ content \in AnyFiles
  /\ CheckIdle(WavPaths \cup OtherPaths)
  /\ BatchIdle /\ RestIdle
NextAny ==
  \/ Call_is_wav_silent
  \/ Call_wav_riff_size_matches_file
  \/ Call_wav_has_loop_points
  \/ Call_wav_has_hard_edges
  \/ Call_wav_has_clipping
SpecAny == InitAny /\ [][NextAny]_vars

\* The kinds of odd content: no room for the 12-byte header; wrong magic;
\* a sampler chunk that declares fewer than 36 bytes; sample data that ends
\* inside a frame.
TooShort(b) == Len(b) < 12
BadMagic(b) ==
  /\ Len(b) >= 12
  /\ \/ <<b[1], b[2], b[3], b[4]>> # <<82, 73, 70, 70>>
     \/ <<b[9], b[10], b[11], b[12]>> # <<87, 65, 86, 69>>
UndersizedSmpl(b) ==
  /\ Len(b) >= 12
  /\ C1_FirstSmpl(b, 12) >= 0
  /\ C1_DeclaredSize(b, C1_FirstSmpl(b, 12)) < 36
TruncatedFrame(c) ==
  /\ WaveOpen(c.bytes).err = ""
  /\ Len(DataRead(c.bytes, WaveOpen(c.bytes), 0, WaveOpen(c.bytes).data_size))
       % WaveOpen(c.bytes).framesize # 0

\* C6: on a .wav path whose file can be opened and is structurally odd (too
\* short for the header, wrong magic, undersized smpl chunk, truncated
\* trailing frame), each of the five checks returns a verdict and never
\* raises.
C6_OddFilesGetVerdict ==
  (/\ op # "none"
   /\ path \in WavPaths
   /\ content.exists
   /\ \/ TooShort(content.bytes)
      \/ BadMagic(content.bytes)
      \/ UndersizedSmpl(content.bytes)
      \/ TruncatedFrame(content))
    => IsVerdict(out.res)

\* What a check returns on a file that passes it.
C7_PassOutcome(name) ==
  IF name \in {"wav_riff_size_matches_file", "wav_has_loop_points"}
    THEN "True" ELSE "False"

\* C7: on a file without the RIFF/WAVE magic every check rejects in the same
\* way: no check gives the outcome of a file that passes it, and whether the
\* rejection is a verdict or a raised failure is the same for the check that
\* ran as for the RIFF size check on the same file.
C7_UniformRejection ==
  (/\ op # "none"
   /\ path \in WavPaths
   /\ content.exists
   /\ BadMagic(content.bytes))
    => /\ out.res # C7_PassOutcome(op)
       /\ IsVerdict(out.res)
            <=> IsVerdict(wav_riff_size_matches_file(path, content).res)

\* C8: each of the five checks, called with a path whose extension is not
\* '.wav' in any case, fails with the unsupported-file-type error before any
\* file-system access; a path ending in '.WAV' or '.Wav' gets the outcome
\* the same call gets with '.wav'.
C8_SuffixGateBeforeIO ==
  /\ (op # "none" /\ path \in OtherPaths)
       => (out.res = "ValueError" /\ out.io = <<>>)
  /\ (op # "none" /\ path \in {P_a_WAV, P_a_Wav})
       => /\ out = CheckOutcome(op, P_a_wav, content, args)
          /\ out.io # <<>>

\* wav_has_clipping refuses a.txt, which is there, without touching it.
C8_Witness ==
  /\ op = "wav_has_clipping"
  /\ path = P_a_txt
  /\ content.exists
  /\ out = [res |-> "ValueError", io |-> <<>>]

----------------------------------------------------------------------------
(* AudioFileCheckThread                                                    *)

\* os.path.splitext(f)[1]: from the last dot after the last '/', when a
\* character other than a dot stands between them.
SplitExt(p) ==
  LET sep == LastIndex(p, 47)
      dot == LastIndex(p, 46)
  IN IF dot > sep /\ \E i \in (sep + 1)..(dot - 1) : p[i] # 46
       THEN SubSeq(p, dot, Len(p)) ELSE <<>>

\* Path(path).parts: the root "/" of an absolute path, then its components
\* (the text between separators; empty ones and "." are dropped).
Components(p) ==
  LET last(i) == CHOOSE j \in i..Len(p) :
                   /\ \A k \in i..j : p[k] # 47
                   /\ (j = Len(p) \/ p[j + 1] = 47)
      starts  == {i \in 1..Len(p) :
                    /\ p[i] # 47
                    /\ (i = 1 \/ p[i - 1] = 47)
                    /\ SubSeq(p, i, last(i)) # <<46>>}
      nth(k)  == CHOOSE i \in starts : Cardinality({j \in starts : j < i}) = k - 1
  IN [k \in 1..Cardinality(starts) |-> SubSeq(p, nth(k), last(nth(k)))]

Parts(p) ==
  IF p # <<>> /\ p[1] = 47 THEN <<<<47>>>> \o Components(p)
  ELSE Components(p)

\* Path(*parts), as text: the parts joined by separators, none after the
\* root; "." when there is no part.
JoinParts(parts) ==
  LET piece(k) == IF k = Len(parts) \/ parts[k] = <<47>> THEN parts[k]
                  ELSE parts[k] \o <<47>>
      joined[k \in 0..Len(parts)] ==
        IF k = 0 THEN <<>> ELSE joined[k - 1] \o piece(k)
  IN IF parts = <<>> THEN <<46>> ELSE joined[Len(parts)]

\* shorten_path(path, num_parents): Path(*parts[-num_parents:])
shorten_path(p, num_parents) ==
  LET parts == Parts(p)
  IN JoinParts(SubSeq(parts, Max(1, Len(parts) - num_parents + 1), Len(parts)))

\* A mutated append_issue that lists a path once per category.
append_issue_once(iss, issue, file) ==
  IF \E i \in 1..Len(iss[issue]) : iss[issue][i] = shorten_path(file, 2)
    THEN iss
    ELSE [iss EXCEPT ![issue] = Append(@, shorten_path(file, 2))]

\* append_issue(issue, file)
append_issue(iss, issue, file) ==
  [iss EXCEPT ![issue] = Append(@, shorten_path(file, 2))]

\* bool(v) for the values given in a checks dict (Python literals).
PyBool(v) == v \notin {"False", "0", "None", "''"}

CheckNames == {"is_wav_silent", "wav_riff_size_matches_file",
               "wav_has_loop_points"}

\* A mutated constructor that leaves the checks off unless asked for.
ConstructChecksDefaultOff(arg) ==
  [k \in CheckNames \cup (IF arg.dict THEN DOMAIN arg.items ELSE {}) |->
     IF arg.dict /\ k \in DOMAIN arg.items THEN PyBool(arg.items[k])
     ELSE FALSE]

\* __init__: self.checks, all True, updated from the argument when it is a
\* dict (arg.dict; its entries are arg.items).
ConstructChecks(arg) ==
  [k \in CheckNames \cup (IF arg.dict THEN DOMAIN arg.items ELSE {}) |->
     IF arg.dict /\ k \in DOMAIN arg.items THEN PyBool(arg.items[k])
     ELSE TRUE]

\* __init__: self.issues
NoIssues ==
  [k \in {"Silent Audio", "RIFF Size Mismatch", "Missing Loop Points",
          "Unreadable WAV"} |-> <<>>]

\* The order in which results_text walks self.issues (insertion order).
IssueOrder == <<"Silent Audio", "RIFF Size Mismatch", "Missing Loop Points",
                "Unreadable WAV">>

RECURSIVE SumLens(_, _)
SumLens(iss, names) ==
  IF names = <<>> THEN 0 ELSE Len(iss[Head(names)]) + SumLens(iss, Tail(names))

\* A mutated total that leaves the unreadable files out.
ResultsTotalReadable(iss) == SumLens(iss, SubSeq(IssueOrder, 1, 3))

\* total, as results_text adds it up.
ResultsTotal(iss) == SumLens(iss, IssueOrder)

\* results_text(), line by line.
results_text(iss) ==
  <<<<"Audio File Check Results:">>, <<"">>>>
  \o Concat([k \in 1..Len(IssueOrder) |->
       <<<<"count", IssueOrder[k], Len(iss[IssueOrder[k]])>>>>
       \o [j \in 1..Len(iss[IssueOrder[k]]) |-> <<"  - ", iss[IssueOrder[k]][j]>>]
       \o <<<<"">>>>])
  \o <<<<"Total issues: ", ResultsTotal(iss)>>>>

\* chunk_frames of is_wav_silent when run leaves it out.
DefaultChunkFrames == 4096

\* A mutated handler: `except ValueError` in place of `except Exception`.
CaughtValueErrorOnly(res) == res = "ValueError"

\* except Exception: every failure the checks raise is an Exception.
Caught(res) ==
  res \in {"ValueError", "OSError", "EOFError", "wave.Error", "RuntimeError",
           "audioop.error"}

\* The files on disk during a batch run.
B_d_s_wav   == <<100, 47, 115, 46, 119, 97, 118>>   \* d/s.wav
B_e_d_s_wav == <<101, 47, 100, 47, 115, 46, 119, 97, 118>>   \* e/d/s.wav
B_d_l_WAV   == <<100, 47, 108, 46, 87, 65, 86>>   \* d/l.WAV
B_x_wav     == <<47, 120, 46, 119, 97, 118>>   \* /x.wav
B_d_b_wav   == <<100, 47, 98, 46, 119, 97, 118>>   \* d/b.wav
B_n_txt     == <<47, 110, 46, 116, 120, 116>>   \* /n.txt

BatchPaths == {B_d_s_wav, B_e_d_s_wav, B_d_l_WAV, B_x_wav, B_d_b_wav, B_n_txt}

\* d/s.wav is silent, has the right size and no sampler chunk; e/d/s.wav
\* has a wrong magic; d/l.WAV is loud, has the right size and a loop;
\* /x.wav is not there; d/b.wav is loud with a wrong size field and no
\* sampler chunk; /n.txt is a sound file under another extension.
BatchFS(p) ==
  CASE p = B_d_s_wav   -> PcmFile(2, 1, <<"Z", "Z">>, <<>>, 1)
    [] p = B_e_d_s_wav -> AFile(MkRiff(TagRIFX, 4, TagWAVE, <<>>))
    [] p = B_d_l_WAV   -> OrdinaryFile
    [] p = B_x_wav     -> NoFile
    [] p = B_d_b_wav   -> PcmFile(2, 1, <<"X", "X">>, <<>>, 4)
    [] p = B_n_txt     -> OrdinaryFile

\* What the checks do on the file at p, called as run calls them.
OutcomesOn(p) ==
  [is_wav_silent |-> is_wav_silent(p, BatchFS(p), DefaultChunkFrames).res,
   wav_riff_size_matches_file |-> wav_riff_size_matches_file(p, BatchFS(p)).res,
   wav_has_loop_points |-> wav_has_loop_points(p, BatchFS(p)).res]

\* The same for every file of the disk, which does not change during a
\* run, in the order of BatchPathList.
BatchPathList ==
  <<B_d_s_wav, B_e_d_s_wav, B_d_l_WAV, B_x_wav, B_d_b_wav, B_n_txt>>

BatchOutcomeList ==
  <<OutcomesOn(B_d_s_wav), OutcomesOn(B_e_d_s_wav), OutcomesOn(B_d_l_WAV),
    OutcomesOn(B_x_wav), OutcomesOn(B_d_b_wav), OutcomesOn(B_n_txt)>>

BatchOutcome(p) ==
  BatchOutcomeList[CHOOSE i \in 1..Len(BatchPathList) : BatchPathList[i] = p]

\* The try block of run for the file f, on which the checks do o: the
\* issues afterwards, the checks invoked with their outcomes, and the
\* exception that ended the block ("" when none did).
TryBlock(f, o, cks, iss) ==
  LET r1 == IF cks["is_wav_silent"]
              THEN o["is_wav_silent"] ELSE "skipped"
      i1 == IF r1 = "True" THEN append_issue(iss, "Silent Audio", f) ELSE iss
      go2 == r1 \in {"skipped", "True", "False"}
      r2 == IF go2 /\ cks["wav_riff_size_matches_file"]
              THEN o["wav_riff_size_matches_file"] ELSE "skipped"
      i2 == IF r2 = "False" THEN append_issue(i1, "RIFF Size Mismatch", f)
            ELSE i1
      go3 == go2 /\ r2 \in {"skipped", "True", "False"}
      r3 == IF go3 /\ cks["wav_has_loop_points"]
              THEN o["wav_has_loop_points"] ELSE "skipped"
      i3 == IF r3 = "False" THEN append_issue(i2, "Missing Loop Points", f)
            ELSE i2
      all == <<<<"is_wav_silent", r1>>, <<"wav_riff_size_matches_file", r2>>,
               <<"wav_has_loop_points", r3>>>>
  IN [issues |-> i3,
      log    |-> SelectSeq(all, LAMBDA e : e[2] # "skipped"),
      exc    |-> IF ~go2 THEN r1 ELSE IF ~go3 THEN r2
                 ELSE IF r3 \notin {"skipped", "True", "False"} THEN r3
                 ELSE ""]

\* The checks arguments a thread is constructed with: none, a dict that
\* names every check, dicts that name some, a dict with an unknown key.
ChecksArgs ==
  {[dict |-> FALSE, items |-> <<>>]}
  \cup {[dict |-> TRUE, items |-> f] : f \in [CheckNames -> {"True", "False"}]}
  \cup {[dict |-> TRUE, items |-> [k \in {"is_wav_silent"} |-> "0"]],
        [dict |-> TRUE,
         items |-> [k \in {"wav_has_loop_points", "wav_riff_size_matches_file"}
                      |-> IF k = "wav_has_loop_points" THEN "''" ELSE "1"]],
        [dict |-> TRUE, items |-> [k \in {"other"} |-> "True"]]}

MaxFiles == 2

\* No single check is being called.
NoCall ==
  /\ path = <<>>
  /\ content = NoFile
  /\ op = "none"
  /\ args = NoArgs
  /\ out = NoOut

checkVars == <<path, content, op, args, out>>

\* AudioFileCheckThread(files, checks) has been constructed.
InitBatch ==
  /\ files \in SeqUpTo(BatchPaths, MaxFiles)
  /\ checks_arg \in ChecksArgs
  /\ checks = ConstructChecks(checks_arg)
  /\ issues = NoIssues
  /\ bpc = "new"
  /\ idx = 0
  /\ progress = 0
  /\ emitted = <<>>
  /\ calls = <<>>
  /\ NoCall
  /\ RestIdle

\* run, up to the loop.
RunStart ==
  /\ bpc = "new"
  /\ emitted' = Append(emitted, <<"progress_size_updated", Len(files)>>)
  /\ progress' = 0
  /\ bpc' = "loop"
  /\ UNCHANGED <<files, checks_arg, checks, issues, idx, calls, checkVars,
                 restVars>>

\* One iteration of `for f in self.files`.
RunFile ==
  /\ bpc = "loop"
  /\ idx < Len(files)
  /\ idx' = idx + 1
  /\ LET f == files[idx + 1]
     IN IF Lower(SplitExt(f)) # DotWav
          THEN UNCHANGED <<issues, bpc, progress, emitted, calls>>
        ELSE \E t \in {TryBlock(f, BatchOutcome(f), checks, issues)} :
          /\ calls' = calls \o [k \in 1..Len(t.log) |->
                                  <<idx + 1, t.log[k][1], t.log[k][2]>>]
          /\ IF t.exc # "" /\ ~Caught(t.exc)
               THEN \* the exception leaves run
                    /\ issues' = t.issues
                    /\ bpc' = "crashed"
                    /\ UNCHANGED <<progress, emitted>>
               ELSE /\ issues' = IF t.exc # ""
                                   THEN append_issue(t.issues, "Unreadable WAV", f)
                                   ELSE t.issues
                    /\ progress' = progress + 1
                    /\ emitted' = emitted
                         \o <<<<"progress_bar_updated", progress + 1>>,
                              <<"progress_label_updated", f>>>>
                    /\ UNCHANGED bpc
  /\ UNCHANGED <<files, checks_arg, checks, checkVars, restVars>>

\* run, after the loop.
RunFinish ==
  /\ bpc = "loop"
  /\ idx = Len(files)
  /\ emitted' = Append(emitted, <<"results_ready", results_text(issues)>>)
  /\ bpc' = "done"
  /\ UNCHANGED <<files, checks_arg, checks, issues, idx, progress, calls,
                 checkVars, restVars>>

NextBatch == RunStart \/ RunFile \/ RunFinish
SpecBatch == InitBatch /\ [][NextBatch]_vars

-----------------------------------------------------------------------------
(* The batch runner and its failures                                       *)

\* The invocations that raised, in the order they happened.
C9_Failures == SelectSeq(calls, LAMBDA e : ~IsVerdict(e[3]))

\* The positions of the list whose path ends in .wav, up to position n.
C9_WavPositions(n) == {i \in 1..n : HasWavSuffix(files[i])}

\* The payloads of the emissions of one signal, in order.
C9_Payloads(signal) ==
  LET es == SelectSeq(emitted, LAMBDA e : e[1] = signal)
  IN [k \in 1..Len(es) |-> es[k][2]]

\* The .wav paths among the first n of the list, in list order.
C9_WavPaths(n) == SelectSeq(SubSeq(files, 1, n), HasWavSuffix)

\* C9: a failure raised by a check on a file of the list puts that file
\* (its path shortened to two components) under "Unreadable WAV" once, one
\* entry per failure in the order of the failures, and no file fails twice
\* in one pass; the run is never left by an exception; every .wav path
\* handled so far has had its progress
\* reported, in list order, and when any check is enabled has been handed
\* to a check; results_ready is emitted once, as the last signal, when the
\* whole list has been handled, and never before.
C9_FailureIsBucketed ==
  /\ bpc \in {"new", "loop", "done"}
  /\ idx <= Len(files)
  /\ issues["Unreadable WAV"] =
       [k \in 1..Len(C9_Failures) |-> shorten_path(files[C9_Failures[k][1]], 2)]
  /\ \A j, k \in 1..Len(C9_Failures) :
       C9_Failures[j][1] = C9_Failures[k][1] => j = k
  /\ \A k \in 1..Len(calls) :
       /\ calls[k][1] \in C9_WavPositions(idx)
       /\ k > 1 => calls[k - 1][1] <= calls[k][1]
  /\ \A i \in C9_WavPositions(idx) :
       (\E n \in CheckNames : checks[n]) => \E k \in 1..Len(calls) : calls[k][1] = i
  /\ C9_Payloads("progress_label_updated") = C9_WavPaths(idx)
  /\ C9_Payloads("progress_bar_updated") = [k \in 1..Len(C9_WavPaths(idx)) |-> k]
  /\ Len(C9_Payloads("results_ready")) = (IF bpc = "done" THEN 1 ELSE 0)
  /\ bpc = "done" =>
       /\ idx = Len(files)
       /\ emitted[Len(emitted)] = <<"results_ready", results_text(issues)>>

\* A run is done in which the first file failed and the second was checked.
C9_Witness ==
  /\ bpc = "done"
  /\ Len(files) = 2
  /\ \E k \in 1..Len(calls) : calls[k][1] = 1 /\ ~IsVerdict(calls[k][3])
  /\ \E k \in 1..Len(calls) : calls[k][1] = 2 /\ IsVerdict(calls[k][3])
  /\ Len(issues["Unreadable WAV"]) = 1

\* The check a category belongs to, and the verdict that lists a file.
C10_Category ==
  [n \in CheckNames |->
     CASE n = "is_wav_silent"              -> "Silent Audio"
       [] n = "wav_riff_size_matches_file" -> "RIFF Size Mismatch"
       [] n = "wav_has_loop_points"        -> "Missing Loop Points"]

C10_Offending ==
  [n \in CheckNames |-> IF n = "is_wav_silent" THEN "True" ELSE "False"]

\* The outcome of a check, called as run calls it, on a file of the batch.
C10_Outcome(n, f) == BatchOutcome(f)[n]

\* No enabled check raises on the file f.
C10_NoneRaises(f) ==
  \A n \in CheckNames : checks[n] => IsVerdict(C10_Outcome(n, f))

\* The entries a category should hold after the first n files.
C10_Listed(c, n) ==
  LET hit(i) == /\ HasWavSuffix(files[i])
                /\ checks[c]
                /\ C10_Outcome(c, files[i]) = C10_Offending[c]
      RECURSIVE upto(_)
      upto(i) == IF i = 0 THEN <<>>
                 ELSE IF hit(i) THEN Append(upto(i - 1), shorten_path(files[i], 2))
                 ELSE upto(i - 1)
  IN upto(n)

\* The total that the report of results_ready carries.
C10_ReportedTotal ==
  LET text == emitted[Len(emitted)][2]
  IN text[Len(text)][2]

-----------------------------------------------------------------------------
(* The gates of wav_has_hard_edges and wav_has_clipping                    *)

\* A file whose fmt chunk, the first chunk, declares the format tag, the
\* channel count and the bits per sample given, with n frames of the byte b.
GateFile(tag, channels, bits, n, b) ==
  AFile(Riff(FmtChunk(tag, channels, bits)
             \o WellFormed(TagData, Fill(n * channels * ((bits + 7) \div 8), b))))

\* Format tags: PCM and IEEE float.  Bits per sample: widths 1 to 5, and 12
\* bits, which the reader rounds up to width 2.
GateTags == {1, 3}
GateBits == {8, 12, 16, 24, 32, 40}
MaxGateFrames == 2

InitGate ==
  /\ \E tag \in GateTags, ch \in Channels, bits \in GateBits,
        n \in 0..MaxGateFrames, b \in {0, 127} :
       content = GateFile(tag, ch, bits, n, b)
  /\ CheckIdle({P_a_wav})
  /\ BatchIdle /\ RestIdle
NextGate == Call_wav_has_hard_edges \/ Call_wav_has_clipping
SpecGate == InitGate /\ [][NextGate]_vars

\* The format tag and the sample width that the fmt chunk of a gate file
\* declares (file offsets 20 and 34, little-endian 16-bit fields).
C11_FormatTag(b) == b[21] + 256 * b[22]
C11_Width(b) == ((b[35] + 256 * b[36]) + 7) \div 8

\* What the other of the two checks does on the same path and file.
C11_Other ==
  IF op = "wav_has_hard_edges"
    THEN wav_has_clipping(path, content, 1, 2, 1, 1).res
    ELSE wav_has_hard_edges(path, content, 1, 2, 1).res

\* C11: wav_has_hard_edges and wav_has_clipping gate identically: on a file
\* whose format is not PCM each fails, on a PCM file whose sample width is
\* outside 1..4 each fails with the unsupported-width error (a ValueError),
\* whatever the frame count, and on no file does one of the two raise a
\* gating error while the other returns a verdict.
C11_GateIdentically ==
  (op \in {"wav_has_hard_edges", "wav_has_clipping"} /\ content.exists)
    => /\ C11_FormatTag(content.bytes) # 1 => ~IsVerdict(out.res)
       /\ (/\ C11_FormatTag(content.bytes) = 1
           /\ C11_Width(content.bytes) \notin {1, 2, 3, 4})
            => out.res = "ValueError"
       /\ ~(out.res = "ValueError" /\ IsVerdict(C11_Other))
       /\ ~(IsVerdict(out.res) /\ C11_Other = "ValueError")

----------------------------------------------------------------------------
(* The two decodings of one sample                                         *)

\* The bytes a sample is drawn from: the ends of the byte range and both
\* sides of the sign bit; an 8-bit sample is drawn from every byte.
EdgeBytes == {0, 1, 127, 128, 255}
AllBytes == 0..255

RECURSIVE ByteSeqs(_, _)
ByteSeqs(n, S) ==
  IF n = 0 THEN {<<>>}
  ELSE {<<b>> \o t : b \in S, t \in ByteSeqs(n - 1, S)}

InitDecode ==
  /\ \E sample_width \in Widths :
       \E sample \in ByteSeqs(sample_width,
                              IF sample_width = 1 THEN AllBytes ELSE EdgeBytes) :
         dec = [NoDec EXCEPT !.width = sample_width, !.sample = sample]
  /\ procs = <<>>
  /\ win = NoWin
  /\ fc = NoFc
  /\ CheckIdle({P_a_wav}) /\ content = NoFile
  /\ BatchIdle

\* One channel of one frame goes through the branches of _frame_peak_abs
\* and through those of the inner loop of wav_has_clipping.
DecodeBoth ==
  /\ ~dec.done
  /\ dec' = [dec EXCEPT !.done = TRUE,
                        !.frame = DecodeSample(dec.sample, dec.width),
                        !.inline = ClipDecodeSample(dec.sample, dec.width)]
  /\ UNCHANGED <<path, content, op, args, out, batchVars, procs, win, fc>>

NextDecode == DecodeBoth

SpecDecode == InitDecode /\ [][NextDecode]_vars

\* The bytes of the two's complement of v in n bytes, least significant
\* first.
C12_Encode(v, n) == [i \in 1..n |-> (v \div Pow256(i - 1)) % 256]

\* The values n bytes of two's complement can hold.
C12_InRange(v, n) ==
  CASE n = 2 -> v >= -32768 /\ v <= 32767
    [] n = 3 -> v >= -8388608 /\ v <= 8388607
    [] n = 4 -> v >= -2147483647 - 1 /\ v <= 2147483647

\* C12: a decoded sample of width 1 is its byte minus 128; a decoded sample
\* of width 2, 3 or 4 is the number whose little-endian two's complement in
\* that many bytes is the sample (for width 3: 00 00 80 is -8388608,
\* 00 00 00 is 0, FF FF 7F is 8388607); and the decoding inside
\* _frame_peak_abs and the one inline in wav_has_clipping give the same
\* number.
C12_DecodingsAgree ==
  dec.done =>
    /\ dec.frame = dec.inline
    /\ dec.width = 1 => dec.frame = dec.sample[1] - 128
    /\ dec.width \in {2, 3, 4} =>
         /\ C12_InRange(dec.frame, dec.width)
         /\ C12_Encode(dec.frame, dec.width) = dec.sample
    /\ dec.sample = <<0, 0, 128>> => dec.frame = -8388608
    /\ dec.sample = <<0, 0, 0>> => dec.frame = 0
    /\ dec.sample = <<255, 255, 127>> => dec.frame = 8388607

C12_Witness ==
  /\ dec.done
  /\ dec.sample = <<0, 0, 128>>
  /\ dec.frame = -8388608
  /\ dec.inline = -8388608

----------------------------------------------------------------------------
(* The threshold of wav_has_hard_edges                                     *)

\* num/den brought into [0,1], as a numerator over den.
C13_ClampedNum == IF args.num < 0 THEN 0
                  ELSE IF args.num > args.den THEN args.den ELSE args.num

\* C13: the threshold wav_has_hard_edges uses is
\* max(1, floor(maxAmplitude * min(1, max(0, zeroThresholdRatio)))): it never
\* exceeds maxAmplitude, and a call with a ratio outside [0,1] ends as the
\* call with the nearest end of [0,1].
C13_ThresholdClamped ==
  (/\ op = "wav_has_hard_edges"
   /\ IsVerdict(out.res)
   /\ WaveOpen(content.bytes).nframes > 0)
    => LET w == WaveOpen(content.bytes).sampwidth
           threshold == EdgeThreshold(MaxAmplitude(w), args.num, args.den)
       IN /\ threshold = Max(1, (C5_Amplitude(w) * C13_ClampedNum) \div args.den)
          /\ threshold <= C5_Amplitude(w)
          /\ out.res = wav_has_hard_edges(path, content, C13_ClampedNum,
                                          args.den, args.window).res

----------------------------------------------------------------------------
(* The checks of lines 9-105 step by step: one invocation per process, one *)
(* file access per step, the locals of each invocation in its own record   *)

procVars == <<path, content, op, args, out, batchVars, dec, win, fc>>

\* A mutated binding in which every invocation reads through the file
\* object of the first one.
FileObjectShared(i) == 1

\* `with open(path, "rb") as f` and `with wave.open(str(path), "rb") as wav`
\* make a new file object for each invocation: invocation i reads through
\* object i.
FileObject(i) == i

\* The cursor of the file object that invocation i reads through.
Cursor(i) == procs[FileObject(i)].pos

\* An invocation that has not started.
Invocation(check, p, c, chunk_frames) ==
  [check |-> check, path |-> p, file |-> c, chunk_frames |-> chunk_frames,
   pc |-> "start", pos |-> 0, chunk_size |-> 0, visited |-> <<>>,
   overlapped |-> FALSE, res |-> "none",
   \* wav_has_clipping: its other arguments, the reader wave.open
   \* returned (wav), clipped_hits, the chunk in
   \* hand with the offset it was read at, the samples of it decoded so
   \* far, the readframes calls made, and the samples decoded, by their
   \* place in the sample data
   num |-> 0, den |-> 1, min_clipped |-> 0, hits |-> 0, frames |-> <<>>,
   at |-> 0, k |-> 0, reads |-> 0, decoded |-> <<>>,
   wav |-> [err |-> "closed"]]

\* Some other invocation is between its first step and its return.
OthersRunning(i) ==
  \E j \in DOMAIN procs : j # i /\ procs[j].pc \notin {"start", "done"}

\* Invocation i moves to pc with its file object's cursor at pos.
Moved(i, pc, pos) ==
  [[procs EXCEPT ![i].pc = pc,
                 ![i].overlapped = @ \/ OthersRunning(i)]
     EXCEPT ![FileObject(i)].pos = pos]

\* Invocation i returns v, or raises when v is the name of an exception.
Finished(i, v) ==
  [procs EXCEPT ![i].pc = "done", ![i].res = v,
                ![i].overlapped = @ \/ OthersRunning(i)]

Verdict(b) == IF b THEN "True" ELSE "False"

\* wav_has_loop_points, lines 71-77: the suffix gate and os.path.getsize.
LoopStart(i) ==
  /\ procs[i].check = "wav_has_loop_points" /\ procs[i].pc = "start"
  /\ procs' = IF ~HasWavSuffix(procs[i].path) THEN Finished(i, "ValueError")
              ELSE IF ~procs[i].file.exists THEN Finished(i, "OSError")
              ELSE IF Len(procs[i].file.bytes) < 12 THEN Finished(i, "False")
              ELSE Moved(i, "open", 0)
  /\ UNCHANGED procVars

\* lines 79-82: open, header = f.read(12), and the test of the header.
LoopOpen(i) ==
  /\ procs[i].check = "wav_has_loop_points" /\ procs[i].pc = "open"
  /\ LET header == FileRead(procs[i].file.bytes, 0, 12)
     IN procs' = IF ~RiffHeaderOk(header) THEN Finished(i, "False")
                 ELSE Moved(i, "header", Len(header))
  /\ UNCHANGED procVars

\* lines 86-94, 100-101: chunk_header = f.read(8), and what follows up to the
\* next file access.
LoopHeader(i) ==
  /\ procs[i].check = "wav_has_loop_points" /\ procs[i].pc = "header"
  /\ LET at           == Cursor(i)
         chunk_header == FileRead(procs[i].file.bytes, at, 8)
         chunk_id     == Slice(chunk_header, 0, 4)
         chunk_size   == FromBytesLittle(Slice(chunk_header, 4, 8))
     IN procs' =
          IF Len(chunk_header) < 8 THEN Finished(i, "False")
          ELSE IF chunk_id = TagSmpl /\ chunk_size < 36
            THEN [Finished(i, "False") EXCEPT
                    ![i].visited = Append(@, <<at, chunk_id, chunk_size>>)]
          ELSE [Moved(i, IF chunk_id = TagSmpl THEN "smpl" ELSE "skip", at + 8)
                  EXCEPT ![i].chunk_size = chunk_size,
                         ![i].visited = Append(@, <<at, chunk_id, chunk_size>>)]
  /\ UNCHANGED procVars

\* lines 95-99: smpl_data = f.read(36) and the verdict.
LoopSmpl(i) ==
  /\ procs[i].check = "wav_has_loop_points" /\ procs[i].pc = "smpl"
  /\ LET smpl_data == FileRead(procs[i].file.bytes, Cursor(i), 36)
     IN procs' = IF Len(smpl_data) < 36 THEN Finished(i, "False")
                 ELSE Finished(i, Verdict(NumSampleLoops(smpl_data) > 0))
  /\ UNCHANGED procVars

\* A mutated seek that counts the skip from the start of the file.
LoopSkipFromStart(i) ==
  /\ procs[i].check = "wav_has_loop_points" /\ procs[i].pc = "skip"
  /\ procs' = Moved(i, "header", ChunkSkip(procs[i].chunk_size))
  /\ UNCHANGED procVars

\* A mutated seek that never comes back: the walk stays in the chunk.
LoopSkipNeverReturns(i) ==
  /\ procs[i].check = "wav_has_loop_points" /\ procs[i].pc = "skip"
  /\ procs' = procs
  /\ UNCHANGED procVars

\* lines 102-103: f.seek(skip, os.SEEK_CUR).
LoopSkip(i) ==
  /\ procs[i].check = "wav_has_loop_points" /\ procs[i].pc = "skip"
  /\ procs' = Moved(i, "header", Cursor(i) + ChunkSkip(procs[i].chunk_size))
  /\ UNCHANGED procVars

\* wav_riff_size_matches_file, lines 48-54.
RiffStart(i) ==
  /\ procs[i].check = "wav_riff_size_matches_file" /\ procs[i].pc = "start"
  /\ procs' = IF ~HasWavSuffix(procs[i].path) THEN Finished(i, "ValueError")
              ELSE IF ~procs[i].file.exists THEN Finished(i, "OSError")
              ELSE IF Len(procs[i].file.bytes) < 12 THEN Finished(i, "False")
              ELSE Moved(i, "open", 0)
  /\ UNCHANGED procVars

\* lines 56-63: open, header = f.read(12), and the comparison.
RiffOpen(i) ==
  /\ procs[i].check = "wav_riff_size_matches_file" /\ procs[i].pc = "open"
  /\ LET header == FileRead(procs[i].file.bytes, 0, 12)
     IN procs' = IF ~RiffHeaderOk(header) THEN Finished(i, "False")
                 ELSE Finished(i, Verdict(RiffSizeEquals(
                        FromBytesLittle(Slice(header, 4, 8)),
                        Len(procs[i].file.bytes))))
  /\ UNCHANGED procVars

\* is_wav_silent, lines 14-22: the suffix gate, wave.open and the test for
\* an empty data chunk.
SilentOpen(i) ==
  /\ procs[i].check = "is_wav_silent" /\ procs[i].pc = "start"
  /\ procs' = IF ~HasWavSuffix(procs[i].path) THEN Finished(i, "ValueError")
              ELSE IF ~procs[i].file.exists THEN Finished(i, "OSError")
              ELSE LET w == WaveOpen(procs[i].file.bytes)
                   IN IF w.err # "" THEN Finished(i, w.err)
                      ELSE IF w.nframes = 0 THEN Finished(i, "True")
                      ELSE Moved(i, "read", 0)
  /\ UNCHANGED procVars

\* lines 29-38: frames = wav.readframes(chunk_frames) and the test of the
\* chunk.
SilentRead(i) ==
  /\ procs[i].check = "is_wav_silent" /\ procs[i].pc = "read"
  /\ LET w      == WaveOpen(procs[i].file.bytes)
         frames == ReadFrames(procs[i].file.bytes, w, Cursor(i),
                              procs[i].chunk_frames)
     IN procs' =
          IF frames = <<>> THEN Finished(i, "True")
          ELSE IF AnyNotSilent(frames, w.sampwidth) THEN Finished(i, "False")
          ELSE Moved(i, "read",
                     DataPosAfter(procs[i].file.bytes, w, Cursor(i),
                                  procs[i].chunk_frames * w.framesize))
  /\ UNCHANGED procVars

ProcsIdle ==
  /\ CheckIdle({P_a_wav}) /\ content = NoFile
  /\ BatchIdle
  /\ dec = NoDec
  /\ win = NoWin
  /\ fc = NoFc

----------------------------------------------------------------------------
(* Two invocations on two files, their steps interleaved                   *)

EarlyChecks ==
  {"wav_has_loop_points", "wav_riff_size_matches_file", "is_wav_silent"}

MaxParChunks == 2
MaxParSamples == 2

\* The first file: chunks under a good header.  The second file: 8- and
\* 16-bit mono PCM with a loop chunk after the data.
ParChunkMenu == <<LoopChunkMenu[1], LoopChunkMenu[2], LoopChunkMenu[5]>>

InitPar ==
  /\ \E ks \in SeqUpTo(1..Len(ParChunkMenu), MaxParChunks),
        w \in {1, 2}, kinds \in SeqUpTo({"Z", "L"}, MaxParSamples),
        layout \in {5},
        k1 \in {"wav_has_loop_points", "wav_riff_size_matches_file"},
        k2 \in EarlyChecks :
       procs = << Invocation(k1, P_a_wav,
                             AFile(Riff(Body(ParChunkMenu, ks))), 1),
                  Invocation(k2, P_d_b_wav,
                             PcmFile(w, 1, kinds, <<>>, layout), 1) >>
  /\ ProcsIdle

NextPar ==
  \E i \in DOMAIN procs :
    \/ LoopStart(i) \/ LoopOpen(i) \/ LoopHeader(i) \/ LoopSmpl(i)
    \/ LoopSkip(i) \/ RiffStart(i) \/ RiffOpen(i) \/ SilentOpen(i)
    \/ SilentRead(i)

SpecPar == InitPar /\ [][NextPar]_vars

\* What the invocation returns or raises when nothing else runs.
C14_Alone(p) ==
  CASE p.check = "wav_has_loop_points" -> wav_has_loop_points(p.path, p.file).res
    [] p.check = "wav_riff_size_matches_file" ->
         wav_riff_size_matches_file(p.path, p.file).res
    [] p.check = "is_wav_silent" ->
         is_wav_silent(p.path, p.file, p.chunk_frames).res

\* C14: whatever the interleaving of the steps of two checks on two files,
\* each check ends with the verdict or the failure it ends with when it
\* runs alone on its file.
C14_SameAsAlone ==
  \A i \in DOMAIN procs :
    procs[i].pc = "done" => procs[i].res = C14_Alone(procs[i])

C14_Witness ==
  /\ \A i \in DOMAIN procs : procs[i].pc = "done" /\ procs[i].overlapped
  /\ procs[1].check = "wav_has_loop_points" /\ procs[1].res = "True"
  /\ Len(procs[1].visited) = 2
  /\ procs[2].check = "is_wav_silent" /\ procs[2].res = "True"
  /\ procs[2].pos > 1

----------------------------------------------------------------------------
(* The chunk walk of wav_has_loop_points, one invocation                   *)

\* The chunks of the loop-point files and a chunk of declared size 0.
WalkChunkMenu == LoopChunkMenu \o <<WellFormed(TagLIST, <<>>)>>

InitWalk ==
  /\ \/ \E ks \in ChunkChoices(WalkChunkMenu), k \in LoopCuts :
          procs = << Invocation("wav_has_loop_points", P_a_wav,
                                AFile(CutTail(Riff(Body(WalkChunkMenu, ks)), k)),
                                1) >>
     \/ \E n \in {0, 4, 11} :
          procs = << Invocation("wav_has_loop_points", P_a_wav,
                                AFile(SubSeq(Riff(<<>>), 1, n)), 1) >>
  /\ ProcsIdle

NextWalk ==
  \E i \in DOMAIN procs :
    \/ LoopStart(i) \/ LoopOpen(i) \/ LoopHeader(i) \/ LoopSmpl(i)
    \/ LoopSkip(i)

SpecWalk == InitWalk /\ [][NextWalk]_vars

\* The steps of an invocation are taken as long as it has not returned.
SpecWalkFair == SpecWalk /\ WF_vars(NextWalk)

\* The offset, id and declared size of the k-th header the walk has read.
C15_Offset(k) == procs[1].visited[k][1]
C15_Id(k)     == procs[1].visited[k][2]
C15_Size(k)   == procs[1].visited[k][3]

\* Where the chunk after the one at offset o with declared size s begins.
C15_After(o, s) == o + 8 + s + (IF s % 2 = 1 THEN 1 ELSE 0)

\* The chunk boundaries of the file from offset o on: the offsets at which a
\* whole header lies, each found from the header before it; none after a
\* 'smpl' chunk.
RECURSIVE C15_Boundaries(_, _)
C15_Boundaries(bytes, o) ==
  IF o + 8 > Len(bytes) THEN <<>>
  ELSE LET s == bytes[o + 5] + 256 * bytes[o + 6] + 65536 * bytes[o + 7]
                + 16777216 * bytes[o + 8]
       IN IF SubSeq(bytes, o + 1, o + 4) = TagSmpl THEN <<o>>
          ELSE <<o>> \o C15_Boundaries(bytes, C15_After(o, s))

\* C15: in the chunk walk the first header is read at offset 12 and, after a
\* chunk that is not 'smpl' with header at offset o and declared size s, the
\* next header is read at o + 8 + s + (s mod 2); the offsets strictly
\* increase; the headers read are chunk boundaries of the file (so 'smpl'
\* inside a payload is never read as a header), and a walk that has ended
\* has read the header at every boundary, repeated ids included.
C15_WalkFollowsBoundaries ==
  LET p == procs[1]
      n == Len(p.visited)
      bounds == C15_Boundaries(p.file.bytes, 12)
  IN /\ \A k \in 1..n :
          /\ C15_Offset(k) = IF k = 1 THEN 12
                             ELSE C15_After(C15_Offset(k - 1), C15_Size(k - 1))
          /\ k > 1 => C15_Offset(k) > C15_Offset(k - 1)
          /\ k < n => C15_Id(k) # TagSmpl
          /\ k <= Len(bounds) /\ bounds[k] = C15_Offset(k)
     /\ (p.pc = "header" /\ n > 0)
          => p.pos = C15_After(C15_Offset(n), C15_Size(n))
     /\ (p.pc = "done" /\ n > 0) => n = Len(bounds)

C15_Witness ==
  /\ procs[1].pc = "done" /\ procs[1].res = "True"
  /\ Len(procs[1].visited) = 3
  /\ C15_Id(1) = TagLIST /\ C15_Size(1) = 8
  /\ SubSeq(procs[1].file.bytes, C15_Offset(1) + 9, C15_Offset(1) + 12) = TagSmpl
  /\ C15_Id(2) = TagLIST /\ C15_Size(2) = 1
  /\ C15_Id(3) = TagSmpl

\* C16: the chunk walk ends whatever sizes the chunks declare (0 and sizes
\* past the end of the file included), and a read of a chunk header that
\* finds fewer than 8 bytes left ends it with the result false.
C16_WalkTerminates ==
  /\ <>(procs[1].pc = "done" /\ procs[1].res \in {"True", "False"})
  /\ [][(/\ procs[1].pc = "header"
         /\ Len(procs[1].file.bytes) - procs[1].pos < 8)
          => (procs'[1].pc = "done" /\ procs'[1].res = "False")]_vars

C16_Witness ==
  /\ procs[1].pc = "done" /\ procs[1].res = "False"
  /\ Len(procs[1].visited) = 2
  /\ C15_Size(1) = 0
  /\ C15_Size(2) = 1000
  /\ procs[1].pos > Len(procs[1].file.bytes)

----------------------------------------------------------------------------
(* The fast path of wav_has_clipping                                       *)

\* The loop of lines 214-246 with the fast path (lines 218-225) taken out:
\* every chunk read is decoded sample by sample.
RECURSIVE C17_ScanWithoutSkip(_, _, _, _, _, _, _)
C17_ScanWithoutSkip(bytes, w, dpos, chunk_frames, threshold, min_hits, hits) ==
  LET frames == ReadFrames(bytes, w, dpos, chunk_frames)
      found  == hits + ChunkHits(frames, w, threshold)
  IN IF frames = <<>> THEN "False"
     ELSE IF found >= min_hits THEN "True"
     ELSE C17_ScanWithoutSkip(bytes, w,
            DataPosAfter(bytes, w, dpos, chunk_frames * w.framesize),
            chunk_frames, threshold, min_hits, found)

\* The chunk peak is at least the absolute value of each sample of the
\* whole frames of the chunk.
C17_PeakBounds(frames, w) ==
  \A i \in 1..((Len(frames) \div w.framesize) * w.nchannels) :
    Abs(C4_Value(SubSeq(frames, (i - 1) * w.sampwidth + 1, i * w.sampwidth),
                 w.sampwidth)) <= ChunkPeak(frames, w.sampwidth)

\* C17: for a PCM file of width 1 to 4 the result of wav_has_clipping is
\* the result of the same scan without the fast path, and the peak of each
\* chunk it reads is an upper bound of the absolute value of every sample
\* decoded from that chunk.
C17_FastPathKeepsResult ==
  (/\ op = "wav_has_clipping"
   /\ Readable
   /\ WaveOpen(content.bytes).sampwidth \in 1..4)
    => LET w == WaveOpen(content.bytes)
       IN /\ out.res = C17_ScanWithoutSkip(content.bytes, w, 0,
                         args.chunk_frames,
                         ClipThreshold(MaxAmplitude(w.sampwidth), args.num,
                                       args.den),
                         Max(1, args.min_clipped), 0)
          /\ \A k \in 0..w.nframes :
               C17_PeakBounds(ReadFrames(content.bytes, w,
                                         k * args.chunk_frames * w.framesize,
                                         args.chunk_frames), w)

----------------------------------------------------------------------------
(* wav_has_clipping step by step: one readframes or one sample per step    *)

ClipInvocation(p, c, num, den, min_clipped, chunk_frames) ==
  [Invocation("wav_has_clipping", p, c, chunk_frames)
     EXCEPT !.num = num, !.den = den, !.min_clipped = min_clipped]

\* lines 191-212: the suffix gate, wave.open, the gates on the format and
\* the locals of the scan.
ClipOpen(i) ==
  /\ procs[i].check = "wav_has_clipping" /\ procs[i].pc = "start"
  /\ procs' = IF ~HasWavSuffix(procs[i].path) THEN Finished(i, "ValueError")
              ELSE IF ~procs[i].file.exists THEN Finished(i, "OSError")
              ELSE LET w == WaveOpen(procs[i].file.bytes)
                   IN IF w.err # "" THEN Finished(i, w.err)
                      ELSE IF WaveCompType(w) # "NONE"
                        THEN Finished(i, "ValueError")
                      ELSE IF w.sampwidth \notin {1, 2, 3, 4}
                        THEN Finished(i, "ValueError")
                      ELSE IF w.nchannels <= 0 THEN Finished(i, "False")
                      ELSE [Moved(i, "read", 0) EXCEPT ![i].wav = w]
  /\ UNCHANGED procVars

\* The threshold and min_hits of invocation i (lines 206-209).
ClipThresholdOf(i) ==
  ClipThreshold(MaxAmplitude(procs[i].wav.sampwidth),
                procs[i].num, procs[i].den)
ClipMinHits(i) == Max(1, procs[i].min_clipped)

\* lines 215-226: frames = wav.readframes(chunk_frames), the fast path and
\* frame_count.
ClipRead(i) ==
  /\ procs[i].check = "wav_has_clipping" /\ procs[i].pc = "read"
  /\ LET bytes  == procs[i].file.bytes
         w      == procs[i].wav
         at     == Cursor(i)
         frames == ReadFrames(bytes, w, at, procs[i].chunk_frames)
         next   == DataPosAfter(bytes, w, at,
                                procs[i].chunk_frames * w.framesize)
         frame_count == Len(frames) \div w.framesize
         read   == [procs EXCEPT ![i].reads = @ + 1]
     IN procs' =
          IF frames = <<>>
            THEN [Finished(i, "False") EXCEPT ![i].reads = @ + 1]
          ELSE IF Len(frames) % w.sampwidth # 0
            THEN [Finished(i, "audioop.error") EXCEPT ![i].reads = @ + 1]
          ELSE IF \/ ChunkPeak(frames, w.sampwidth) < ClipThresholdOf(i)
                  \/ frame_count = 0
            THEN [Moved(i, "read", next) EXCEPT ![i].reads = @ + 1]
          ELSE [Moved(i, "sample", next) EXCEPT
                  ![i].reads = @ + 1, ![i].frames = frames, ![i].at = at,
                  ![i].k = 0]
  /\ UNCHANGED procVars

\* A mutated inner loop that goes on to the end of the chunk after the hit
\* that fills the count.
ClipSampleNoEarlyReturn(i) ==
  /\ procs[i].check = "wav_has_clipping" /\ procs[i].pc = "sample"
  /\ LET w      == procs[i].wav
         k      == procs[i].k
         sample == Slice(procs[i].frames, k * w.sampwidth,
                         (k + 1) * w.sampwidth)
         value  == ClipDecodeSample(sample, w.sampwidth)
         hits   == procs[i].hits + (IF Abs(value) >= ClipThresholdOf(i)
                                      THEN 1 ELSE 0)
         last   == k + 1 = (Len(procs[i].frames) \div w.framesize) * w.nchannels
         seen   == Append(procs[i].decoded,
                          (procs[i].at \div w.sampwidth) + k + 1)
     IN procs' =
          IF last /\ hits >= ClipMinHits(i)
            THEN [Finished(i, "True") EXCEPT ![i].hits = hits,
                                            ![i].decoded = seen]
          ELSE [Moved(i, IF last THEN "read" ELSE "sample", Cursor(i)) EXCEPT
                  ![i].hits = hits, ![i].decoded = seen, ![i].k = k + 1]
  /\ UNCHANGED procVars

\* lines 228-246: one turn of the inner loop: a sample is cut out of the
\* chunk and decoded, a hit is counted, and the count may end the scan.
ClipSample(i) ==
  /\ procs[i].check = "wav_has_clipping" /\ procs[i].pc = "sample"
  /\ LET w      == procs[i].wav
         k      == procs[i].k
         sample == Slice(procs[i].frames, k * w.sampwidth,
                         (k + 1) * w.sampwidth)
         value  == ClipDecodeSample(sample, w.sampwidth)
         hits   == procs[i].hits + (IF Abs(value) >= ClipThresholdOf(i)
                                      THEN 1 ELSE 0)
         last   == k + 1 = (Len(procs[i].frames) \div w.framesize) * w.nchannels
         seen   == Append(procs[i].decoded,
                          (procs[i].at \div w.sampwidth) + k + 1)
     IN procs' =
          IF Abs(value) >= ClipThresholdOf(i) /\ hits >= ClipMinHits(i)
            THEN [Finished(i, "True") EXCEPT ![i].hits = hits,
                                            ![i].decoded = seen]
          ELSE [Moved(i, IF last THEN "read" ELSE "sample", Cursor(i)) EXCEPT
                  ![i].hits = hits, ![i].decoded = seen, ![i].k = k + 1]
  /\ UNCHANGED procVars

MaxScanSamples == 3

\* PCM files of up to MaxScanSamples samples, whole or with a stray byte.
InitScan ==
  /\ \E w \in Widths, ch \in Channels,
        kinds \in SeqUpTo({"Z", "X", "N"}, MaxScanSamples),
        tail \in {<<>>, <<0>>}, r \in {<<1, 2>>, <<1, 1>>},
        min_clipped \in 1..2, chunk_frames \in 1..2 :
       procs = << ClipInvocation(P_a_wav, PcmFile(w, ch, kinds, tail, 1),
                                 r[1], r[2], min_clipped, chunk_frames) >>
  /\ ProcsIdle

NextScan == \E i \in DOMAIN procs : ClipOpen(i) \/ ClipRead(i) \/ ClipSample(i)

SpecScan == InitScan /\ [][NextScan]_vars

\* The sample data of the file of the invocation, and its samples, each
\* channel of each whole frame, in file order.
C18_Data ==
  LET w == procs[1].wav
  IN DataRead(procs[1].file.bytes, w, 0, w.data_size)
C18_Samples ==
  LET w == procs[1].wav
  IN (Len(C18_Data) \div w.framesize) * w.nchannels
C18_IsHit(j) ==
  LET w == procs[1].wav
  IN Abs(C4_Value(SubSeq(C18_Data, (j - 1) * w.sampwidth + 1, j * w.sampwidth),
                  w.sampwidth)) >= ClipThresholdOf(1)

\* The place of the hit that fills the count: the first sample up to which
\* min_clipped hits lie.
C18_Deciding ==
  CHOOSE j \in 1..C18_Samples :
    /\ C18_IsHit(j)
    /\ Cardinality({h \in 1..j : C18_IsHit(h)}) = procs[1].min_clipped

\* C18: when wav_has_clipping returns true, the last sample it decoded is
\* the hit that brought the count to min_clipped_samples, nothing after it
\* was decoded, and the last readframes call is the one that returned the
\* chunk holding that sample.
C18_StopsAtDecidingHit ==
  (procs[1].pc = "done" /\ procs[1].res = "True")
    => LET w == procs[1].wav
           d == procs[1].decoded
       IN /\ Cardinality({h \in 1..C18_Samples : C18_IsHit(h)})
               >= procs[1].min_clipped
          /\ d # <<>> /\ d[Len(d)] = C18_Deciding
          /\ \A n \in 1..Len(d) : d[n] <= C18_Deciding
          /\ procs[1].hits = procs[1].min_clipped
          /\ procs[1].reads
               = ((C18_Deciding - 1)
                    \div (procs[1].chunk_frames * w.nchannels)) + 1

\* Two hits suffice and lie in the first of two chunks; a third sample lies
\* after them in the same chunk and a fourth in the next one.
C18_Witness ==
  /\ procs[1].pc = "done" /\ procs[1].res = "True"
  /\ procs[1].min_clipped = 2
  /\ procs[1].decoded = <<1, 2>>
  /\ procs[1].reads = 1
  /\ C18_Samples = 3
  /\ procs[1].chunk_frames = 2

----------------------------------------------------------------------------
(* wav_has_hard_edges on PCM files whose data chunk is cut short           *)

MaxShortSamples == 2

InitShort ==
  /\ IsPcmFile(content, {"Z", "X", "N"}, MaxShortSamples, {<<>>}, {1, 3})
  /\ CheckIdle({P_a_wav})
  /\ BatchIdle /\ RestIdle
NextShort == Call_wav_has_hard_edges
SpecShort == InitShort /\ [][NextShort]_vars

\* What the two readframes calls of the check return.
C19_StartData ==
  ReadFrames(content.bytes, WaveOpen(content.bytes), 0, C5_Window)
C19_EndData ==
  LET wv == WaveOpen(content.bytes)
  IN ReadFrames(content.bytes, wv, (wv.nframes - C5_Window) * wv.framesize,
                C5_Window)

\* The read returned fewer than `window` whole frames.
C19_Short(data) ==
  Len(data) \div WaveOpen(content.bytes).framesize < C5_Window

\* Every one of the `window` frames of data is whole and has a channel
\* whose absolute value exceeds the threshold.
C19_AllLoud(data) ==
  LET wv == WaveOpen(content.bytes)
  IN /\ ~C19_Short(data)
     /\ \A i \in 0..(C5_Window - 1) :
          \E ch \in 0..(wv.nchannels - 1) :
            Abs(C4_Value(SubSeq(data,
                                i * wv.framesize + ch * wv.sampwidth + 1,
                                i * wv.framesize + (ch + 1) * wv.sampwidth),
                         wv.sampwidth)) > C5_Threshold(wv.sampwidth)

\* C19: a frame slice shorter than sample_width * channels has peak 0; and
\* when wav_has_hard_edges returns a verdict and the read of one window came
\* back with fewer than `window` whole frames, the minimum peak of that side
\* is 0 and the verdict is true only if the other side has no frame at or
\* below the threshold.
C19_ShortSideIsSilent ==
  (/\ op = "wav_has_hard_edges"
   /\ Readable
   /\ IsVerdict(out.res)
   /\ WaveOpen(content.bytes).nframes >= 1)
    => LET wv  == WaveOpen(content.bytes)
           amp == MaxAmplitude(wv.sampwidth)
       IN /\ \A n \in 0..(wv.framesize - 1) :
               FramePeakAbs(SubSeq(C19_StartData, 1, Min(n, Len(C19_StartData))),
                            wv.sampwidth, wv.nchannels) = 0
          /\ C19_Short(C19_StartData) =>
               /\ EdgeMinPeak(C19_StartData, wv, C5_Window, amp) = 0
               /\ out.res = "True" => C19_AllLoud(C19_EndData)
          /\ C19_Short(C19_EndData) =>
               /\ EdgeMinPeak(C19_EndData, wv, C5_Window, amp) = 0
               /\ out.res = "True" => C19_AllLoud(C19_StartData)

\* The end window came back short, the start window whole and loud.
C19_Witness ==
  /\ op = "wav_has_hard_edges" /\ Readable
  /\ out.res = "True"
  /\ C19_Short(C19_EndData) /\ C19_EndData # <<>>
  /\ ~C19_Short(C19_StartData)
  /\ C5_Window = 2

----------------------------------------------------------------------------
(* The main window and its worker threads                                  *)
(* (src/components/MainWindow.py).  win.stack is stack.currentIndex(): 0   *)
(* the drop panel, 1 the progress view, 2 the result view with the 'Back   *)
(* to Drop' button.  win.workers holds every thread started so far, and    *)
(* win.events the results_ready signals queued for the main thread (the    *)
(* window lives in the main thread, the signal is emitted in the worker).  *)

MaxDrops == 3

winVars == <<path, content, op, args, out, batchVars, dec, procs, fc>>

\* MainWindow.__init__: no thread, drops accepted, the drop panel shown.
InitWin ==
  /\ win = [stack |-> 0, accept_drops |-> TRUE, thread |-> 0,
            workers |-> <<>>, events |-> <<>>]
  /\ CheckIdle({P_a_wav}) /\ content = NoFile
  /\ BatchIdle
  /\ dec = NoDec
  /\ procs = <<>>
  /\ fc = NoFc

\* dropEvent, delivered only while the window accepts drops: the progress
\* view, setAcceptDrops(False), the two threads built, the one the combo box
\* names started.
dropEvent ==
  /\ win.accept_drops
  /\ Len(win.workers) < MaxDrops
  /\ \E currentIndex \in {0, 1} :
       win' = [win EXCEPT
                 !.stack = 1,
                 !.accept_drops = FALSE,
                 !.workers = Append(@, [class |-> IF currentIndex = 0
                                                    THEN "FileCheckThread"
                                                    ELSE "AudioFileCheckThread",
                                        at |-> "run"]),
                 !.thread = Len(win.workers) + 1]
  /\ UNCHANGED winVars

\* run of either thread class up to and including
\* self.results_ready.emit(self.results_text()).
RunEmitsResults(k) ==
  /\ win.workers[k].at = "run"
  /\ win' = [win EXCEPT !.workers[k].at = "emitted",
                        !.events = Append(@, k)]
  /\ UNCHANGED winVars

\* run after the emit: the prints, and the return that ends the thread.
RunReturns(k) ==
  /\ win.workers[k].at = "emitted"
  /\ win' = [win EXCEPT !.workers[k].at = "finished"]
  /\ UNCHANGED winVars

\* on_thread_results, the slot of results_ready, run by the main thread.
on_thread_results ==
  /\ win.events # <<>>
  /\ win' = [win EXCEPT !.events = Tail(@), !.stack = 2]
  /\ UNCHANGED winVars

\* on_back_to_drop_clicked: the button is in the result view.
on_back_to_drop_clicked ==
  /\ win.stack = 2
  /\ win' = [win EXCEPT !.stack = 0, !.accept_drops = TRUE]
  /\ UNCHANGED winVars

NextWin ==
  \/ dropEvent
  \/ \E k \in DOMAIN win.workers : RunEmitsResults(k)
  \/ \E k \in DOMAIN win.workers : RunReturns(k)
  \/ on_thread_results
  \/ on_back_to_drop_clicked

SpecWin == InitWin /\ [][NextWin]_vars

\* The threads that have been started and have not ended.
C20_Running == {k \in DOMAIN win.workers : win.workers[k].at # "finished"}

\* C20: while the progress view or the result view is shown no drop is
\* accepted; the result view is shown only after the thread of the last
\* drop has emitted results_ready; and never are two worker threads running
\* at once.
C20_OneRunAtATime ==
  /\ win.stack \in {1, 2} => ~win.accept_drops
  /\ win.stack = 2 => win.workers[win.thread].at \in {"emitted", "finished"}
  /\ Cardinality(C20_Running) <= 1

----------------------------------------------------------------------------
(* The token tests of the filename check (src/components/SampleFileCheck.py) *)
(* and FileCheckThread._check_schema_parts (src/components/Threads.py).    *)
(* Tokens are sequences of character codes over letters, digits, '+', '-' *)
(* and '#'.                                                                *)

UpperChar(c) == IF c >= 97 /\ c <= 122 THEN c - 32 ELSE c
Upper(s) == [i \in 1..Len(s) |-> UpperChar(s[i])]

\* \d+ : one or more digits.
Digits(s) == Len(s) > 0 /\ \A i \in 1..Len(s) : s[i] >= 48 /\ s[i] <= 57

RECURSIVE DigitsValue(_)
DigitsValue(s) ==
  IF s = <<>> THEN 0
  ELSE 10 * DigitsValue(SubSeq(s, 1, Len(s) - 1)) + (s[Len(s)] - 48)

\* int(s, 10): an optional sign and digits; anything else is a ValueError.
PyInt(s) ==
  LET signed == Len(s) > 0 /\ s[1] \in {43, 45}
      body   == IF signed THEN Tail(s) ELSE s
  IN IF ~Digits(body) THEN [ok |-> FALSE, value |-> 0]
     ELSE [ok |-> TRUE,
           value |-> IF signed /\ s[1] = 45 THEN -DigitsValue(body)
                     ELSE DigitsValue(body)]

\* The pieces of s between the occurrences of character c (str.split).
RECURSIVE SplitBy(_, _)
SplitBy(s, c) ==
  LET hits == {i \in 1..Len(s) : s[i] = c}
  IN IF hits = {} THEN <<s>>
     ELSE LET i == CHOOSE h \in hits : \A g \in hits : h <= g
          IN <<SubSeq(s, 1, i - 1)>> \o SplitBy(SubSeq(s, i + 1, Len(s)), c)

\* is_velocity_token(token)
is_velocity_token(token) ==
  IF \A i \in 1..Len(token) : token[i] # 45 THEN FALSE
  ELSE LET velo_table == SplitBy(token, 45)
       IN IF Len(velo_table) # 2 THEN FALSE
          ELSE LET velo_min == PyInt(velo_table[1])
                   velo_max == PyInt(velo_table[2])
               IN IF ~velo_min.ok \/ ~velo_max.ok THEN FALSE
                  ELSE IF ~(/\ 0 <= velo_min.value /\ velo_min.value <= 127
                            /\ 0 <= velo_max.value /\ velo_max.value <= 127)
                    THEN FALSE
                  ELSE velo_min.value # velo_max.value

\* base = {"C": 0, "D": 2, "E": 4, "F": 5, "G": 7, "A": 9, "B": 11}
NoteBase(c) ==
  CASE c = 67 -> 0 [] c = 68 -> 2 [] c = 69 -> 4 [] c = 70 -> 5
    [] c = 71 -> 7 [] c = 65 -> 9 [] c = 66 -> 11

\* is_root_key_token(token): ^[A-Ga-g](#|b)?(-?\d+)$ and the range tests.
is_root_key_token(token) ==
  IF Len(token) < 2 \/ UpperChar(token[1]) \notin 65..71 THEN FALSE
  ELSE
    LET has_acc == token[2] \in {35, 98}
        rest    == SubSeq(token, IF has_acc THEN 3 ELSE 2, Len(token))
        digits  == IF Len(rest) > 0 /\ rest[1] = 45 THEN Tail(rest) ELSE rest
    IN IF ~Digits(digits) THEN FALSE
       ELSE
         LET octave   == PyInt(rest).value
             semitone == NoteBase(UpperChar(token[1]))
                         + (IF ~has_acc THEN 0
                            ELSE IF token[2] = 35 THEN 1 ELSE -1)
             midi == IF semitone < 0
                       THEN octave * 12 + semitone + 12
                     ELSE IF semitone > 11
                       THEN (octave + 2) * 12 + semitone - 12
                     ELSE (octave + 1) * 12 + semitone
         IN IF octave < 0 \/ octave > 8 THEN FALSE
            ELSE 0 <= midi /\ midi <= 128

T_ppp == <<112, 112, 112>>
T_pp  == <<112, 112>>
T_p   == <<112>>
T_mp  == <<109, 112>>
T_mf  == <<109, 102>>
T_f   == <<102>>
T_ff  == <<102, 102>>
T_fff == <<102, 102, 102>>

\* is_dynamic_token(token)
is_dynamic_token(token) ==
  token \in {T_ppp, T_pp, T_p, T_mp, T_mf, T_f, T_ff, T_fff}

\* is_round_robin_token(token): RR-?(\d+) on the upper-cased token, then
\* int() of the digits.
is_round_robin_token(token) ==
  LET token_upper == Upper(token)
      after == SubSeq(token_upper, 3, Len(token_upper))
      group1 == IF Len(after) > 0 /\ after[1] = 45 THEN Tail(after) ELSE after
  IN IF ~(/\ Len(token_upper) >= 3
          /\ SubSeq(token_upper, 1, 2) = <<82, 82>>
          /\ Digits(group1))
       THEN FALSE
     ELSE PyInt(group1).ok

\* A mutated test that hands the digits, the second group, to int().
is_up_do_token_digits(token) ==
  LET token_upper == Upper(token)
  IN /\ Len(token_upper) >= 3
     /\ SubSeq(token_upper, 1, 2) \in {<<85, 80>>, <<68, 79>>}
     /\ Digits(SubSeq(token_upper, 3, Len(token_upper)))
     /\ PyInt(SubSeq(token_upper, 3, Len(token_upper))).ok

\* is_up_do_token(token): (UP|DO)(\d+) on the upper-cased token, then int()
\* of match.group(1), the letters.
is_up_do_token(token) ==
  LET token_upper == Upper(token)
      group1 == SubSeq(token_upper, 1, 2)
  IN IF ~(/\ Len(token_upper) >= 3
          /\ group1 \in {<<85, 80>>, <<68, 79>>}
          /\ Digits(SubSeq(token_upper, 3, Len(token_upper))))
       THEN FALSE
     ELSE PyInt(group1).ok

\* is_semitones_token(token): [+-]?\d+ and int(token).
is_semitones_token(token) ==
  LET body == IF Len(token) > 0 /\ token[1] \in {43, 45} THEN Tail(token)
              ELSE token
  IN IF ~Digits(body) THEN FALSE ELSE PyInt(token).ok

\* The values of the enum Wildcard.
WildcardValues ==
  {"GroupName", "InstrumentName", "Articulation", "Dynamic", "Interval",
   "VeloMin-VeloMax", "RootKey", "Ignore", "RoundRobin", "Up/Down",
   "MicPosition", "Semitones"}

\* FileCheckThread.issues after __init__.
FcNoIssues ==
  [k \in {"Leading/Trailing Whitespace", "Reaper Suffix",
          "Schema Length Mismatch", "Velocity Format", "RootKey Format",
          "RoundRobin Format", "Semitones Format", "Up/Down Format",
          "Dynamic Format"} |-> <<>>]

\* One turn of the loop of _check_schema_parts: the category the file is
\* listed under for position idx, "" when it is listed under none.
SchemaIssue(raw, token) ==
  IF raw \notin WildcardValues THEN ""
  ELSE IF raw = "Ignore" THEN ""
  ELSE IF raw = "VeloMin-VeloMax" /\ ~is_velocity_token(token)
    THEN "Velocity Format"
  ELSE IF raw = "RootKey" /\ ~is_root_key_token(token) THEN "RootKey Format"
  ELSE IF raw = "RoundRobin" /\ ~is_round_robin_token(token)
    THEN "RoundRobin Format"
  ELSE IF raw = "Dynamic" /\ ~is_dynamic_token(token) THEN "Dynamic Format"
  ELSE IF raw = "Semitones" /\ ~is_semitones_token(token)
    THEN "Semitones Format"
  ELSE IF raw = "Up/Down" /\ is_up_do_token(token) THEN "Up/Down Format"
  ELSE ""

\* _check_schema_parts(parts, file_path) from position idx on.
RECURSIVE check_schema_parts(_, _, _, _, _)
check_schema_parts(schema, parts, file_path, pos, iss) ==
  IF pos > Len(schema) THEN iss
  ELSE LET issue == SchemaIssue(schema[pos], parts[pos])
       IN check_schema_parts(schema, parts, file_path, pos + 1,
            IF issue = "" THEN iss ELSE append_issue(iss, issue, file_path))

T_UP1  == <<85, 80, 49>>
T_DO1  == <<68, 79, 49>>
T_up12 == <<117, 112, 49, 50>>
T_Do0  == <<68, 111, 48>>
T_UP   == <<85, 80>>
T_XX1  == <<88, 88, 49>>
T_1    == <<49>>
T_UP1a == <<85, 80, 49, 97>>
T_RR1  == <<82, 82, 49>>
T_rr_2 == <<114, 114, 45, 50>>
T_RR   == <<82, 82>>
T_plus3 == <<43, 51>>
T_x    == <<120>>
T_1_127 == <<49, 45, 49, 50, 55>>
T_5_5  == <<53, 45, 53>>
T_1_128 == <<49, 45, 49, 50, 56>>
T_Cs4  == <<67, 35, 52>>
T_b9   == <<98, 57>>
T_H1   == <<72, 49>>

\* The schema entries and tokens a position is drawn from.
SchemaMenu ==
  << <<"Up/Down", T_UP1>>, <<"Up/Down", T_DO1>>, <<"Up/Down", T_up12>>,
     <<"Up/Down", T_Do0>>, <<"Up/Down", T_UP>>, <<"Up/Down", T_XX1>>,
     <<"Up/Down", T_1>>, <<"Up/Down", T_UP1a>>, <<"Up/Down", <<>> >>,
     <<"RoundRobin", T_RR1>>, <<"RoundRobin", T_rr_2>>, <<"RoundRobin", T_RR>>,
     <<"Semitones", T_plus3>>, <<"Semitones", T_x>>,
     <<"VeloMin-VeloMax", T_1_127>>, <<"VeloMin-VeloMax", T_5_5>>,
     <<"VeloMin-VeloMax", T_1_128>>, <<"VeloMin-VeloMax", T_1>>,
     <<"RootKey", T_Cs4>>, <<"RootKey", T_b9>>, <<"RootKey", T_H1>>,
     <<"Dynamic", T_mf>>, <<"Dynamic", T_x>>,
     <<"Ignore", T_UP1>>, <<"GroupName", T_x>>, <<"Custom", T_XX1>> >>

MaxSchema == 2

\* The path of the file whose stem splits into parts at '_'.
RECURSIVE JoinTokens(_)
JoinTokens(parts) ==
  IF Len(parts) = 1 THEN parts[1]
  ELSE parts[1] \o <<95>> \o JoinTokens(Tail(parts))
SchemaFile(parts) == <<100, 47>> \o JoinTokens(parts) \o DotWav

fcVars == <<path, content, op, args, out, batchVars, dec, procs, win>>

\* A FileCheckThread with a schema, in run() at the call of
\* _check_schema_parts for a file whose name has as many parts as the schema.
InitSchema ==
  /\ \E n \in 1..MaxSchema : \E ks \in [1..n -> 1..Len(SchemaMenu)] :
       LET parts == [i \in 1..n |-> SchemaMenu[ks[i]][2]]
       IN fc = [at |-> "parts",
                schema |-> [i \in 1..n |-> SchemaMenu[ks[i]][1]],
                parts |-> parts,
                file |-> SchemaFile(parts),
                issues |-> FcNoIssues]
  /\ CheckIdle({P_a_wav}) /\ content = NoFile
  /\ BatchIdle
  /\ dec = NoDec
  /\ procs = <<>>
  /\ win = NoWin

CheckSchemaParts ==
  /\ fc.at = "parts"
  /\ fc' = [fc EXCEPT !.at = "checked",
                      !.issues = check_schema_parts(fc.schema, fc.parts,
                                                    fc.file, 1, fc.issues)]
  /\ UNCHANGED fcVars

NextSchema == CheckSchemaParts

SpecSchema == InitSchema /\ [][NextSchema]_vars

\* UP or DO in any case, then one or more digits, and nothing else.
C21_Accepted(token) ==
  /\ Len(token) >= 3
  /\ \/ token[1] \in {85, 117} /\ token[2] \in {80, 112}
     \/ token[1] \in {68, 100} /\ token[2] \in {79, 111}
  /\ \A i \in 3..Len(token) : token[i] \in 48..57

\* C21: is_up_do_token accepts exactly the tokens UP<digits> and DO<digits>
\* in any case, and after _check_schema_parts the file is listed under
\* 'Up/Down Format' exactly when some position of the schema is Up/Down and
\* the token at that position is not accepted.
C21_UpDownChecked ==
  fc.at = "checked" =>
    /\ \A i \in 1..Len(fc.parts) :
         is_up_do_token(fc.parts[i]) = C21_Accepted(fc.parts[i])
    /\ (fc.issues["Up/Down Format"] # <<>>)
         = (\E i \in 1..Len(fc.schema) :
              fc.schema[i] = "Up/Down" /\ ~C21_Accepted(fc.parts[i]))

----------------------------------------------------------------------------
(* One file scanned twice by the same check, with two chunk sizes          *)

MaxChunkSamples == 2

\* The two invocations differ in chunk_frames alone; chunk_frames 0 is
\* among the sizes.
InitChunks ==
  /\ \E w \in {1, 2}, ch \in Channels,
        kinds \in SeqUpTo({"Z", "L", "X"}, MaxChunkSamples),
        tail \in {<<>>, <<0>>},
        check \in {"is_wav_silent", "wav_has_clipping"},
        min_clipped \in 1..2, a \in 0..2, b \in 0..2 :
       /\ a < b
       /\ check = "is_wav_silent" => min_clipped = 1
       /\ LET c == PcmFile(w, ch, kinds, tail, 1)
              first == IF check = "is_wav_silent"
                         THEN Invocation(check, P_a_wav, c, a)
                         ELSE ClipInvocation(P_a_wav, c, 1, 1, min_clipped, a)
          IN procs = << first, [first EXCEPT !.chunk_frames = b] >>
  /\ ProcsIdle

\* The second call is made when the first has returned: the invocations
\* that may take a step.
ChunkTurn ==
  {i \in DOMAIN procs : \A j \in 1..(i - 1) : procs[j].pc = "done"}

NextChunks ==
  \E i \in ChunkTurn :
    \/ SilentOpen(i) \/ SilentRead(i)
    \/ ClipOpen(i) \/ ClipRead(i) \/ ClipSample(i)

SpecChunks == InitChunks /\ [][NextChunks]_vars

\* C22: for every file and every two values of chunk_frames >= 1,
\* is_wav_silent returns the same result with both, and so does
\* wav_has_clipping.
C22_ChunkSizeIndependent ==
  (/\ procs[1].pc = "done" /\ procs[2].pc = "done"
   /\ procs[1].chunk_frames >= 1 /\ procs[2].chunk_frames >= 1)
    => procs[1].res = procs[2].res

\* The frames of the file of invocation i, 0 when wave.open refuses it.
C23_Frames(i) ==
  LET w == WaveOpen(procs[i].file.bytes)
  IN IF procs[i].file.exists /\ w.err = "" THEN w.nframes ELSE 0

----------------------------------------------------------------------------
(* The try block of AudioFileCheckThread.run, one check per step           *)

MaxTryFiles == 2

\* The paths of the list and the checks arguments of these runs.
TryPaths == {B_d_s_wav, B_d_b_wav, B_n_txt}
TryChecksArgs ==
  {[dict |-> FALSE, items |-> <<>>],
   [dict |-> TRUE, items |-> [k \in {"is_wav_silent"} |-> "False"]]}

InitTry ==
  /\ files \in SeqUpTo(TryPaths, MaxTryFiles)
  /\ checks_arg \in TryChecksArgs
  /\ checks = ConstructChecks(checks_arg)
  /\ issues = NoIssues
  /\ bpc = "new"
  /\ idx = 0
  /\ progress = 0
  /\ emitted = <<>>
  /\ calls = <<>>
  /\ NoCall
  /\ RestIdle

\* `for f in self.files` and the extension gate (lines 247-250).
TryGate ==
  /\ bpc = "loop"
  /\ idx < Len(files)
  /\ idx' = idx + 1
  /\ bpc' = IF Lower(SplitExt(files[idx + 1])) # DotWav THEN "loop"
            ELSE "is_wav_silent"
  /\ UNCHANGED <<files, checks_arg, checks, issues, progress, emitted, calls,
                 checkVars, restVars>>

\* What the check does on the file f when c is found there.
TryOutcome(name, f, c) ==
  CASE name = "is_wav_silent" -> is_wav_silent(f, c, DefaultChunkFrames).res
    [] name = "wav_riff_size_matches_file" ->
         wav_riff_size_matches_file(f, c).res
    [] name = "wav_has_loop_points" -> wav_has_loop_points(f, c).res

\* One `if self.checks[name] and ...: self.append_issue(category, f)` of the
\* try block with its `except Exception` (lines 252-260).  Another program
\* may have removed the file, or put it back, since the check before: the
\* check finds the file of the disk or none.  A disabled check is not
\* called; a verdict of `listed` lists the file; a failure is caught and
\* leaves the try block.
TryCheck(name, listed, category, then) ==
  /\ bpc = name
  /\ LET f == files[idx]
     IN IF ~checks[name] THEN bpc' = then /\ UNCHANGED <<issues, calls>>
        ELSE \E c \in {BatchFS(f), NoFile} :
          LET r == TryOutcome(name, f, c)
          IN /\ calls' = Append(calls, <<idx, name, r>>)
             /\ IF IsVerdict(r)
                  THEN /\ issues' = IF r = listed
                                      THEN append_issue(issues, category, f)
                                      ELSE issues
                       /\ bpc' = then
                ELSE IF Caught(r)
                  THEN /\ issues' = append_issue(issues, "Unreadable WAV", f)
                       /\ bpc' = "progress"
                ELSE bpc' = "crashed" /\ UNCHANGED issues
  /\ UNCHANGED <<files, checks_arg, checks, idx, progress, emitted,
                 checkVars, restVars>>

TrySilent ==
  TryCheck("is_wav_silent", "True", "Silent Audio",
           "wav_riff_size_matches_file")
TryRiff ==
  TryCheck("wav_riff_size_matches_file", "False", "RIFF Size Mismatch",
           "wav_has_loop_points")
TryLoop ==
  TryCheck("wav_has_loop_points", "False", "Missing Loop Points", "progress")

\* lines 262-264: progress += 1 and the two progress signals.
TryProgress ==
  /\ bpc = "progress"
  /\ progress' = progress + 1
  /\ emitted' = emitted \o <<<<"progress_bar_updated", progress + 1>>,
                             <<"progress_label_updated", files[idx]>>>>
  /\ bpc' = "loop"
  /\ UNCHANGED <<files, checks_arg, checks, issues, idx, calls, checkVars,
                 restVars>>

NextTry ==
  RunStart \/ TryGate \/ TrySilent \/ TryRiff \/ TryLoop \/ TryProgress
    \/ RunFinish

SpecTry == InitTry /\ [][NextTry]_vars

\* The step is a check that raises: the log grows by a failure.
C24_Raises ==
  /\ Len(calls') = Len(calls) + 1
  /\ ~IsVerdict(calls'[Len(calls')][3])

\* No check is invoked on a position of the list after a check has raised
\* there.
C24_NoLaterCheck ==
  \A j, k \in 1..Len(calls) :
    (j < k /\ ~IsVerdict(calls[j][3])) => calls[k][1] # calls[j][1]

\* C24: when a check raises for a file, no later check is invoked on that
\* file, the entries appended for the file earlier in the iteration are
\* kept, and the only change the failure makes to the thread's state is
\* one entry appended to 'Unreadable WAV'.
C24_FailureFrame ==
  [][/\ C24_NoLaterCheck'
     /\ C24_Raises =>
          /\ issues' = [issues EXCEPT !["Unreadable WAV"] =
                          Append(@, shorten_path(files[idx], 2))]
          /\ UNCHANGED <<files, checks, idx, progress, emitted>>
          /\ bpc' = "progress"]_vars

\* A file was listed as silent, and then, in the same iteration, the size
\* check raised on it; the run went on to its end.
C24_Witness ==
  /\ bpc = "done"
  /\ \E k \in 1..(Len(calls) - 1) :
       /\ calls[k] = <<1, "is_wav_silent", "True">>
       /\ calls[k + 1] = <<1, "wav_riff_size_matches_file", "OSError">>
  /\ issues["Silent Audio"] = <<shorten_path(files[1], 2)>>
  /\ issues["Unreadable WAV"][1] = shorten_path(files[1], 2)

----------------------------------------------------------------------------
(* The progress signals of AudioFileCheckThread.run                        *)

\* The path ends in .wav in any mix of cases after a file name.
C25_WavExt(p) ==
  LET n == Len(p)
  IN /\ n > 4
     /\ p[n - 3] = 46
     /\ p[n - 2] \in {119, 87} /\ p[n - 1] \in {97, 65} /\ p[n] \in {118, 86}
     /\ p[n - 4] \notin {46, 47}

\* The .wav paths among the first n of the list, in list order.
C25_Wavs(n) == SelectSeq(SubSeq(files, 1, n), C25_WavExt)

\* C25: run announces the size len(files) once, before anything else, and
\* then emits the progress values 1, 2, ..., k in increasing order, one
\* after each path handled so far that has a .wav extension in any case
\* (with that path as the label) and none for a path with another
\* extension; so at the end the last progress value equals the announced
\* size only when every path of the list is a .wav path.
C25_ProgressSequence ==
  LET k       == Len(C25_Wavs(idx))
      signals == SelectSeq(emitted, LAMBDA e : e[1] # "results_ready")
  IN /\ bpc = "new" => emitted = <<>>
     /\ bpc # "new" =>
          /\ Len(signals) = 1 + 2 * k
          /\ signals[1] = <<"progress_size_updated", Len(files)>>
          /\ \A j \in 1..k :
               /\ signals[2 * j] = <<"progress_bar_updated", j>>
               /\ signals[2 * j + 1]
                    = <<"progress_label_updated", C25_Wavs(idx)[j]>>
     /\ progress = k
     /\ bpc = "done" =>
          ((progress = Len(files)) = (\A i \in 1..Len(files) : C25_WavExt(files[i])))

\* A finished run over a text file and a .WAV file: size 2 was announced and
\* the last progress value is 1.
C25_Witness ==
  /\ bpc = "done"
  /\ files = <<B_n_txt, B_d_l_WAV>>
  /\ emitted[1] = <<"progress_size_updated", 2>>
  /\ C9_Payloads("progress_bar_updated") = <<1>>

----------------------------------------------------------------------------
(* The minimum peaks of wav_has_hard_edges                                 *)

\* start_min_peak (start = TRUE) or end_min_peak of the call on content.
C26_MinPeak(start) ==
  LET wv == WaveOpen(content.bytes)
      at == IF start THEN 0 ELSE (wv.nframes - C5_Window) * wv.framesize
  IN EdgeMinPeak(ReadFrames(content.bytes, wv, at, C5_Window), wv, C5_Window,
                 MaxAmplitude(wv.sampwidth))

\* The bytes of the start window (start = TRUE) or of the end window.
C26_WindowData(start) ==
  LET wv == WaveOpen(content.bytes)
      at == IF start THEN 0 ELSE (wv.nframes - C5_Window) * wv.framesize
  IN ReadFrames(content.bytes, wv, at, C5_Window)

\* C26: in wav_has_hard_edges the tracked minimum peak of each side never
\* exceeds maxAmplitude; and when totalFrames <= edgeWindowFrames the start
\* window and the end window are the same frames, both sides have the same
\* minimum peak, and the verdict is true iff every frame of the file has a
\* peak above the threshold.
C26_MinPeaksAndWholeFileWindow ==
  (/\ op = "wav_has_hard_edges"
   /\ Readable
   /\ WaveOpen(content.bytes).nframes >= 1
   /\ WaveOpen(content.bytes).sampwidth \in 1..4)
    => LET wv == WaveOpen(content.bytes)
       IN /\ C26_MinPeak(TRUE) <= C5_Amplitude(wv.sampwidth)
          /\ C26_MinPeak(FALSE) <= C5_Amplitude(wv.sampwidth)
          /\ wv.nframes <= args.window =>
               /\ C26_WindowData(TRUE) = C26_WindowData(FALSE)
               /\ C26_MinPeak(TRUE) = C26_MinPeak(FALSE)
               /\ out.res = (IF \A i \in 0..(wv.nframes - 1) :
                                   C5_FramePeak(i) > C5_Threshold(wv.sampwidth)
                               THEN "True" ELSE "False")

====
